---- MODULE Spec2Model ----
(***************************************************************************)
(* exif-turbo: the image index repository (db.py), the rebuild algorithm   *)
(* of IndexerService.build_index (indexing/indexer_service.py) and the two *)
(* background workers IndexWorker and ThumbWorker (ui/workers).            *)
(*                                                                         *)
(* The SQLite database is modelled by the rows of its two tables as the    *)
(* writer connection sees them (images, images_fts) and by the last        *)
(* committed snapshot, which is what any other connection reads in WAL     *)
(* mode (committed).                                                       *)
(***************************************************************************)
EXTENDS Integers, Sequences, FiniteSets, TLC

\* ------------------------------------------------------------- bounds
MaxPaths == 2      \* distinct file paths under the indexed roots
MaxId == 3         \* cap on surrogate ids handed out in the repository-only runs
MaxLimit == 2      \* largest page size (limit) a caller passes to search_images

Paths == 1..MaxPaths
\* The content of a file as first written, and as rewritten later: a version
\* stands for its (mtime, size, metadata).  The code copies these values and
\* never compares them, so two versions tell changed from unchanged.
Vers == {1, 2}
None == 0          \* Python's None / a file that is absent from the disk

\* ------------------------------------------------------------- state
VARIABLES
    images,        \* rows of table images, as seen by the writer connection
    images_fts,    \* rows of virtual table images_fts, same connection
    committed,     \* [images, images_fts]: the last committed snapshot
    disk,          \* the filesystem: path -> None (absent) or its version
    lastOp,        \* the last direct repository call and its arguments
    \* IndexWorker.run / IndexerService.build_index
    pc,            \* position of the IndexWorker thread
    workers,       \* build_index's workers argument
    folders,       \* build_index's folders argument
    json_path,     \* build_index's json_path argument
    index_futures, \* position of paths -> its future in build_index's pool
    snapshot,      \* the file at json_path
    prevRun,       \* arguments and count of the last run, if it ran to its end
    paths,         \* list(self.finder.iter_images(folders))
    pending,       \* positions of paths the writer loop has not consumed
    existing_paths,
    count,
    canceled,      \* build_index's local flag
    cancel_event,  \* IndexWorker._cancel_event
    signals,       \* terminal signals the worker has emitted in this run
    preRun,        \* the snapshot that was committed when the run started
    upsertCalls,   \* number of repo.upsert_image calls of this run
    progress_calls, \* the on_progress calls of the writer loop, in order
    \* ThumbWorker.run
    thumb_pc,           \* position of the ThumbWorker thread
    thumb_workers,      \* ThumbWorker.workers
    thumb_paths,        \* ThumbWorker.paths
    max_thumb_bytes,    \* ThumbWorker.max_thumb_bytes
    thumb_cancel_event, \* ThumbWorker._cancel_event
    thumb_pending,      \* positions of thumb_paths the loop has not consumed
    futures,            \* position -> state of its future in the pool
    cached,
    thumb_signals,      \* terminal signals the worker has emitted in this run
    cache_files,        \* the files of the thumbnail cache directory
    \* ImageFinder.iter_images
    fs,                 \* the folders and files under the roots a user may name
    found,              \* the folders and the result of the last iter_images call
    \* ExifMetadataExtractor.extract
    extracted,          \* the last extract call: what it met and what came of it
    \* MainWindow
    index_button,       \* index_button.isEnabled()
    index_workers,      \* the IndexWorker threads that have not ended
    index_events,       \* terminal signals of IndexWorkers queued for the window
    cancel_index_button \* cancel_index_button: "hidden", "enabled" or "disabled"

storeVars == <<images, images_fts, committed>>
runVars == <<pc, workers, folders, json_path, index_futures, snapshot, prevRun,
             paths, pending, existing_paths, count, canceled, cancel_event,
             signals, preRun, upsertCalls, progress_calls>>
thumbVars == <<thumb_pc, thumb_workers, thumb_paths, max_thumb_bytes,
               thumb_cancel_event, thumb_pending, futures, cached,
               thumb_signals, cache_files>>
finderVars == <<fs, found>>
extractVars == <<extracted>>
windowVars == <<index_button, index_workers, index_events,
                cancel_index_button>>
vars == <<images, images_fts, committed, disk, lastOp, runVars, thumbVars,
          finderVars, extractVars, windowVars>>

\* ------------------------------------------------ pure helpers (values)

\* Path.name (indexer_service.py:58): two paths in different directories
\* may carry the same file name.
PathName(p) == (p + 1) \div 2

\* json.dumps(metadata) (db.py:46): a text, not the mapping itself.
JsonDumps(metadata) == [json |-> metadata]

\* metadata_to_text: each key, then its value, in mapping order, then the
\* mapping serialised as one block.
RECURSIVE KeyValueParts(_)
KeyValueParts(metadata) ==
    IF metadata = <<>> THEN <<>>
    ELSE <<Head(metadata)[1], Head(metadata)[2]>> \o KeyValueParts(Tail(metadata))

metadata_to_text(metadata) == KeyValueParts(metadata) \o <<JsonDumps(metadata)>>

\* str(value) of the tag value exiftool reports for content version v
ValueToken(v) == "v" \o ToString(v)

\* ExifMetadataExtractor.extract seen as a black box: the tag mapping of a
\* file depends on its content version.
Extract(p, v) == <<<<"Model", ValueToken(v)>>>>

MaxOf(S) == CHOOSE m \in S : \A x \in S : x <= m

\* --------------------------------------------------- repository (db.py)

\* SQLite's rowid for a new row of an INTEGER PRIMARY KEY table declared
\* without AUTOINCREMENT: one more than the largest rowid in the table.
NewRowid(imgs) == IF imgs = {} THEN 1 ELSE MaxOf({r.id : r \in imgs}) + 1

\* INSERT OR REPLACE INTO images: the row of the path is deleted and a new
\* row, with a new rowid, is inserted.
ReplaceImagesRow(imgs, path, filename, mtime, size, metadata) ==
    LET rest == { r \in imgs : r.path # path }
    IN  rest \cup { [id |-> IF imgs = {} THEN 1
                            ELSE MaxOf({ r.id : r \in imgs }) + 1,
                     path |-> path, filename |-> filename,
                     mtime |-> mtime, size |-> size,
                     metadata_json |-> [json |-> metadata]] }

\* INSERT INTO images ... ON CONFLICT(path) DO UPDATE SET ...
UpsertImagesRow(imgs, path, filename, mtime, size, metadata) ==
    IF \E r \in imgs : r.path = path
    THEN { IF r.path = path
           THEN [r EXCEPT !.filename = filename, !.mtime = mtime,
                          !.size = size, !.metadata_json = JsonDumps(metadata)]
           ELSE r : r \in imgs }
    ELSE imgs \cup { [id |-> NewRowid(imgs), path |-> path, filename |-> filename,
                      mtime |-> mtime, size |-> size,
                      metadata_json |-> JsonDumps(metadata)] }

\* INSERT OR REPLACE INTO images_fts (rowid, ...) VALUES
\*   ((SELECT id FROM images WHERE path = ?), ?, ?, ?)
UpsertFtsRow(imgs, fts, path, filename, metadata_text) ==
    LET rid == (CHOOSE r \in imgs : r.path = path).id
    IN  { f \in fts : f.rowid # rid }
        \cup { [rowid |-> rid, path |-> path, filename |-> filename,
                metadata_text |-> metadata_text] }

\* ImageIndexRepository.upsert_image on a database value db
upsert_image(db, path, filename, mtime, size, metadata, metadata_text) ==
    LET imgs == UpsertImagesRow(db.images, path, filename, mtime, size, metadata)
    IN  [images |-> imgs,
         images_fts |-> UpsertFtsRow(imgs, db.images_fts, path, filename, metadata_text)]

\* delete_missing with the filter inverted: "if row[0] in existing".
delete_missing_inverted(db, existing) ==
    [images |-> { r \in db.images : r.path \notin existing },
     images_fts |-> { f \in db.images_fts : f.path \notin existing }]

\* delete_missing without its second DELETE: the index rows stay.
delete_missing_primary_only(db, existing) ==
    [images |-> { r \in db.images : r.path \in existing },
     images_fts |-> db.images_fts]

\* delete_missing whose loop stops after the first path to delete
delete_missing_first_only(db, existing) ==
    LET missing == { r.path : r \in { x \in db.images : x.path \notin existing } }
        to_delete == IF missing = {} THEN {}
                     ELSE {CHOOSE p \in missing : \A q \in missing : p <= q}
    IN  [images |-> { r \in db.images : r.path \notin to_delete },
         images_fts |-> { f \in db.images_fts : f.path \notin to_delete }]

\* ImageIndexRepository.delete_missing: existing is the set() of the paths given
delete_missing(db, existing) ==
    LET to_delete == { r.path : r \in { x \in db.images : x.path \notin existing } }
    IN  [images |-> { r \in db.images : r.path \notin to_delete },
         images_fts |-> { f \in db.images_fts : f.path \notin to_delete }]

\* clear_all without its second DELETE: the primary rows stay
clear_all_index_only(db) == [images |-> db.images, images_fts |-> {}]

\* ImageIndexRepository.clear_all
clear_all(db) == [images |-> {}, images_fts |-> {}]

\* The writer connection's view as one database value
Db == [images |-> images, images_fts |-> images_fts]

\* ------------------------------------------------- queries (db.py:79-110)
\* A query text is a sequence of lexemes: blanks, words, and a double quote
\* that opens a string and is never closed.
SP == " "
QUOTE == "\""

\* The texts a caller passes: empty, blank, an unterminated string, the word
\* of a file name between blanks, the word of a tag value and a word that no
\* row holds.
Queries ==
    { <<>>, <<SP>>, <<QUOTE>>, <<SP, "f1", SP>>, <<"v2">>, <<"zzz">> }

\* str.strip(): leading and trailing blanks removed
RECURSIVE lstrip(_)
lstrip(query) ==
    IF query # <<>> /\ Head(query) = SP THEN lstrip(Tail(query)) ELSE query

RECURSIVE rstrip(_)
rstrip(query) ==
    IF query # <<>> /\ query[Len(query)] = SP
    THEN rstrip(SubSeq(query, 1, Len(query) - 1))
    ELSE query

strip(query) == rstrip(lstrip(query))

\* The unicode61 tokenizer on the three indexed columns.  A file name is
\* "<stem>.jpg"; path 1 is root/sub/<name>, any other path root/<name>.
NameTokens(filename) == << "f" \o ToString(filename), "jpg" >>

PathTokens(path) ==
    (IF path = 1 THEN <<"root", "sub">> ELSE <<"root">>) \o NameTokens(PathName(path))

\* metadata_text: the keys and values, then the JSON block, whose tokens are
\* its keys and values again
TextTokens(metadata_text) ==
    SubSeq(metadata_text, 1, Len(metadata_text) - 1)
    \o KeyValueParts(metadata_text[Len(metadata_text)].json)

Tokens(f) ==
    PathTokens(f.path) \o NameTokens(f.filename) \o TextTokens(f.metadata_text)

Occurrences(f, term) ==
    Cardinality({ i \in 1..Len(Tokens(f)) : Tokens(f)[i] = term })

\* What bm25 reads of an index row for a query of one word: how often the
\* word occurs in the row (tf) and how many tokens the row has (len).
Doc(f, term) ==
    LET tokens == Tokens(f)
    IN  [rowid |-> f.rowid, len |-> Len(tokens),
         tf |-> Cardinality({ i \in 1..Len(tokens) : tokens[i] = term })]

RECURSIVE TotalTokens(_)
TotalTokens(docs) ==
    IF docs = {} THEN 0
    ELSE LET d == CHOOSE x \in docs : TRUE
         IN  d.len + TotalTokens(docs \ {d})

\* The fts5 query parser: blanks separate words; a query without a word, or
\* with an unterminated string, is a syntax error.
\* A parser that drops what it cannot read and searches for the rest.
Fts5ParseLenient(query) ==
    LET lex == SelectSeq(query, LAMBDA c : c \notin {SP, QUOTE})
    IN  [ok |-> TRUE, terms |-> IF lex = <<>> THEN <<"">> ELSE lex]

Fts5Parse(query) ==
    LET lex == SelectSeq(query, LAMBDA c : c # SP)
    IN  IF lex = <<>> \/ \E i \in 1..Len(lex) : lex[i] = QUOTE
        THEN [ok |-> FALSE]
        ELSE [ok |-> TRUE, terms |-> lex]

\* images_fts MATCH ?: the rows in which every word of the query occurs
Match(fts, terms) ==
    { f \in fts : \A i \in 1..Len(terms) : Occurrences(f, terms[i]) > 0 }

\* ORDER BY bm25(images_fts) for a query of one word: bm25 is
\* -idf * tf * (k1 + 1) / (tf + k1 * (1 - b + b * len / avglen)) with k1 = 1.2
\* and b = 0.75, so r comes before s when
\* tf(r) * (total + 3 * n * len(s)) > tf(s) * (total + 3 * n * len(r));
\* rows of equal score come in rowid order, the order of the index scan.
\* total and n are the number of tokens and of rows of the whole index; r
\* and s give the rowid, the term frequency tf and the length len of a row.
RanksBefore(total, n, r, s) ==
    LET x == r.tf * (total + 3 * n * s.len)
        y == s.tf * (total + 3 * n * r.len)
    IN  x > y \/ (x = y /\ r.rowid <= s.rowid)

RECURSIVE OrderByBm25(_, _, _)
OrderByBm25(total, n, hits) ==
    IF hits = {} THEN <<>>
    ELSE LET first == CHOOSE r \in hits :
                          \A s \in hits : RanksBefore(total, n, r, s)
         IN  <<first>> \o OrderByBm25(total, n, hits \ {first})

\* ORDER BY filename: rows of equal filename come in id order, the order of
\* the table scan.
RECURSIVE OrderByFilename(_)
OrderByFilename(rows) ==
    IF rows = {} THEN <<>>
    ELSE LET first == CHOOSE r \in rows : \A s \in rows :
                          \/ r.filename < s.filename
                          \/ r.filename = s.filename /\ r.id <= s.id
         IN  <<first>> \o OrderByFilename(rows \ {first})

\* The columns search_images selects
Row(r) == <<r.id, r.path, r.filename, r.metadata_json>>

\* sqlite3.OperationalError raised by conn.execute
SearchError == [ok |-> FALSE]

\* SELECT ... FROM images_fts JOIN images ON images_fts.rowid = images.id
\* WHERE images_fts MATCH ? ORDER BY bm25(images_fts), all rows
SelectMatch(db, query) ==
    LET parsed == Fts5Parse(query)
    IN  IF ~parsed.ok THEN SearchError
        ELSE LET docs == { Doc(f, parsed.terms[1]) : f \in db.images_fts }
                 matched == { f.rowid : f \in Match(db.images_fts, parsed.terms) }
                 hits == { d \in docs : /\ d.rowid \in matched
                                        /\ \E r \in db.images : r.id = d.rowid }
                 ordered == OrderByBm25(TotalTokens(docs), Cardinality(docs), hits)
             IN  [ok |-> TRUE,
                  rows |-> [i \in 1..Len(ordered) |->
                     Row(CHOOSE r \in db.images : r.id = ordered[i].rowid)]]

\* SELECT ... FROM images ORDER BY filename, all rows
SelectAll(db) ==
    LET ordered == OrderByFilename(db.images)
    IN  [ok |-> TRUE, rows |-> [i \in 1..Len(ordered) |-> Row(ordered[i])]]

\* LIMIT ? OFFSET ? with the offset counted from 1
LimitOffsetFromOne(rows, limit, offset) ==
    IF offset + 1 >= Len(rows) THEN <<>>
    ELSE SubSeq(rows, offset + 2,
                IF offset + 1 + limit < Len(rows) THEN offset + 1 + limit
                ELSE Len(rows))

\* LIMIT ? OFFSET ?
LimitOffset(rows, limit, offset) ==
    IF offset >= Len(rows) THEN <<>>
    ELSE SubSeq(rows, offset + 1,
                IF offset + limit < Len(rows) THEN offset + limit ELSE Len(rows))

\* str.strip() left out: the text is tested as it is
StripNothing(query) == query

\* The "if query.strip()" test of search_images and count_images
QueryText(query) == strip(query)

\* ImageIndexRepository.search_images
search_images(db, query, limit, offset) ==
    LET all == IF QueryText(query) # <<>> THEN SelectMatch(db, query)
               ELSE SelectAll(db)
    IN  IF ~all.ok THEN all
        ELSE [ok |-> TRUE, rows |-> LimitOffset(all.rows, limit, offset)]

\* SELECT COUNT(*) FROM images, whatever the query
count_images_unfiltered(db, query) ==
    [ok |-> TRUE, count |-> Cardinality(db.images)]

\* ImageIndexRepository.count_images
count_images(db, query) ==
    IF QueryText(query) # <<>>
    THEN LET parsed == Fts5Parse(query)
         IN  IF ~parsed.ok THEN SearchError
             ELSE [ok |-> TRUE,
                   count |-> Cardinality(Match(db.images_fts, parsed.terms))]
    ELSE [ok |-> TRUE, count |-> Cardinality(db.images)]

\* ------------------------------------------- repository-only behaviours
\* A caller that owns one repository and calls its operations in any order.

NoOp == [op |-> "none"]

\* json_path = None
NoPath == "None"

\* No file at json_path
NoFile == [written |-> FALSE]

\* No earlier run, or one that was canceled or failed, or files changed since
NoRun == [folders |-> <<>>, workers |-> 0, count |-> 0]

\* After ImageIndexRepository.__init__ on a new file: both tables empty.
Init ==
    /\ images = {}
    /\ images_fts = {}
    /\ committed = [images |-> {}, images_fts |-> {}]
    /\ disk = [p \in Paths |-> 1]
    /\ lastOp = NoOp
    /\ pc = "idle"
    /\ workers = 1
    /\ folders = <<>>
    /\ json_path = NoPath
    /\ index_futures = <<>>
    /\ snapshot = NoFile
    /\ prevRun = NoRun
    /\ paths = <<>>
    /\ pending = {}
    /\ existing_paths = <<>>
    /\ count = 0
    /\ canceled = FALSE
    /\ cancel_event = FALSE
    /\ signals = <<>>
    /\ preRun = [images |-> {}, images_fts |-> {}]
    /\ upsertCalls = 0
    /\ progress_calls = <<>>
    /\ fs = [dirs |-> {}, files |-> {}]
    /\ found = [folders |-> <<>>, result |-> <<>>]
    /\ extracted = [called |-> FALSE]
    /\ index_button = TRUE
    /\ index_workers = <<>>
    /\ index_events = <<>>
    /\ cancel_index_button = "hidden"
    /\ thumb_pc = "idle"
    /\ thumb_workers = 1
    /\ thumb_paths = <<>>
    /\ max_thumb_bytes = 1
    /\ thumb_cancel_event = FALSE
    /\ thumb_pending = {}
    /\ futures = <<>>
    /\ cached = 0
    /\ thumb_signals = <<>>
    /\ cache_files = {}

\* The file names a caller passes for path p: its own name or another one.
OtherName(p) == PathName(p) + MaxPaths

RepoUpsert ==
    \E p \in Paths, v \in Vers :
      \E fn \in {PathName(p), OtherName(p)} :
        LET db == upsert_image(Db, p, fn, v, v, Extract(p, v),
                               metadata_to_text(Extract(p, v)))
        IN  /\ \A r \in db.images : r.id <= MaxId
            /\ images' = db.images
            /\ images_fts' = db.images_fts
            /\ lastOp' = [op |-> "upsert_image", path |-> p, filename |-> fn,
                          mtime |-> v, size |-> v, metadata |-> Extract(p, v)]
            /\ UNCHANGED <<committed, disk, finderVars, extractVars, windowVars,
                           runVars, thumbVars>>

RepoDeleteMissing ==
    \E existing \in SUBSET Paths :
        LET db == delete_missing(Db, existing)
        IN  /\ images' = db.images
            /\ images_fts' = db.images_fts
            /\ lastOp' = [op |-> "delete_missing", existing |-> existing]
            /\ UNCHANGED <<committed, disk, finderVars, extractVars, windowVars,
                           runVars, thumbVars>>

RepoClearAll ==
    /\ images' = clear_all(Db).images
    /\ images_fts' = clear_all(Db).images_fts
    /\ lastOp' = [op |-> "clear_all"]
    /\ UNCHANGED <<committed, disk, finderVars, extractVars, windowVars,
                   runVars, thumbVars>>

\* A caller asks for the first page of a query, as MainWindow.search does.
RepoSearch ==
    \E query \in Queries :
        /\ lastOp' = [op |-> "search_images", query |-> query,
                      result |-> search_images(Db, query, MaxLimit, 0)]
        /\ UNCHANGED <<storeVars, disk, finderVars, extractVars, windowVars,
                       runVars, thumbVars>>

RepoCount ==
    \E query \in Queries :
        /\ lastOp' = [op |-> "count_images", query |-> query,
                      result |-> count_images(Db, query)]
        /\ UNCHANGED <<storeVars, disk, finderVars, extractVars, windowVars,
                       runVars, thumbVars>>

NextRepo ==
    RepoUpsert \/ RepoDeleteMissing \/ RepoClearAll \/ RepoSearch \/ RepoCount

SpecRepo == Init /\ [][NextRepo]_vars

\* ---------------------------------------------------------------- C3
\* C3: after any sequence of upsert_image, delete_missing and clear_all the
\* search index and the primary table correspond 1:1: the rowids of
\* images_fts are exactly the ids of images, one index row per id, and the
\* index row of an id holds the path and filename of the primary row.
FtsInLockstep ==
    /\ { f.rowid : f \in images_fts } = { r.id : r \in images }
    /\ Cardinality(images_fts) = Cardinality(images)
    /\ \A f \in images_fts : \E r \in images :
          r.id = f.rowid /\ r.path = f.path /\ r.filename = f.filename

\* a row was deleted below a surviving one, and a survivor was re-upserted
\* under another filename
FtsInLockstepWitness ==
    /\ lastOp.op = "delete_missing"
    /\ images # {}
    /\ \A r \in images : r.id > 1
    /\ \E r \in images : r.filename # PathName(r.path)

\* ---------------------------------------------------------------- C8
\* The primary table never holds two rows of one path, nor two rows of one id.
OneRecordPerPath ==
    \A r, s \in images : (r.path = s.path \/ r.id = s.id) => r = s

\* C8: an upsert_image on a path that already has a row keeps the id of that
\* row and replaces its filename, mtime, size and metadata; every other row
\* is left as it was; and the table holds one row per distinct path.
UpsertKeepsId ==
    [][ /\ OneRecordPerPath'
        /\ lastOp'.op = "upsert_image" =>
             /\ \A r \in images : r.path # lastOp'.path => r \in images'
             /\ \A r \in images : r.path = lastOp'.path =>
                   [id |-> r.id, path |-> r.path, filename |-> lastOp'.filename,
                    mtime |-> lastOp'.mtime, size |-> lastOp'.size,
                    metadata_json |-> JsonDumps(lastOp'.metadata)] \in images'
             /\ Cardinality({ r.path : r \in images' })
                  = Cardinality({ r.path : r \in images } \cup {lastOp'.path})
      ]_vars

\* a re-upsert changed the fields of an existing row next to another row
UpsertKeepsIdWitness ==
    /\ lastOp.op = "upsert_image"
    /\ Cardinality(images) >= 2
    /\ \E r \in images : /\ r.path = lastOp.path
                          /\ r.id < MaxOf({ s.id : s \in images })
                          /\ r.mtime = 2 /\ r.filename # PathName(r.path)

\* ------------------------------------------------------- filesystem
\* Path 1 lies in the sub-folder "sub" of the folder "root"; every other path
\* lies directly in "root".  A path is absent (None), a dangling symbolic
\* link (Broken: os.walk lists it, stat fails) or a file of some version.
Broken == -1

RECURSIVE AscSeq(_)
AscSeq(S) ==
    IF S = {} THEN <<>>
    ELSE LET m == CHOOSE x \in S : \A y \in S : x <= y
         IN  <<m>> \o AscSeq(S \ {m})

Range(seq) == { seq[i] : i \in 1..Len(seq) }

\* os.walk(folder): the files of the folder itself, then those of its
\* sub-folders; only entries that exist are listed.
Walk(folder) ==
    LET here == { p \in Paths : disk[p] # None /\ p # 1 }
        below == { p \in Paths : disk[p] # None /\ p = 1 }
    IN  IF folder = "root" THEN AscSeq(here) \o AscSeq(below) ELSE AscSeq(below)

\* ImageFinder.iter_images(folders)
RECURSIVE iter_images(_)
iter_images(folder_list) ==
    IF folder_list = <<>> THEN <<>>
    ELSE Walk(Head(folder_list)) \o iter_images(Tail(folder_list))

FolderLists == { <<"root">>, <<"sub">>, <<"root", "sub">> }

\* build_item(path): None (built is false) when stat raises, else the
\* IndexedImage
NoItem == [built |-> FALSE]

\* build_item without its try/except: a record whatever stat gave
build_item_uncaught(path) ==
    LET metadata == Extract(path, disk[path])
    IN  [built |-> TRUE, path |-> path, filename |-> PathName(path),
         mtime |-> disk[path], size |-> disk[path],
         metadata |-> metadata, metadata_text |-> metadata_to_text(metadata)]

\* build_item for a path whose stat gave v (or raised: v is not a version)
\* and whose extract call ended as extraction says: an exception of either
\* is caught and None is returned
build_item_from(path, v, extraction) ==
    IF v \notin Vers \/ extraction.raised THEN NoItem
    ELSE [built |-> TRUE, path |-> path, filename |-> PathName(path),
          mtime |-> v, size |-> v,
          metadata |-> extraction.metadata,
          metadata_text |-> metadata_to_text(extraction.metadata)]

build_item(path) ==
    build_item_from(path, disk[path],
                    [raised |-> FALSE, metadata |-> Extract(path, disk[path])])

\* ----------------------------------------------- transactions (sqlite3)
\* A connection opened with isolation_level=None: every statement commits.
AutocommitStatement(cmt, db) == db

\* What other connections can read after the writer connection has executed
\* a DML statement: sqlite3.connect's default isolation level opens a
\* transaction before the first DML statement, so nothing of it until commit.
AfterStatement(cmt, db) == cmt

\* What a reader on a separate connection reads (WAL: the last commit).
ReaderView == committed

\* ------------------------------------- IndexerService.build_index steps
InRun == {"clear_all", "loop", "shutdown", "delete_missing", "commit", "export"}

\* build_index is over: its locals are gone, and nothing reads the futures
\* of the units a canceled pool may still be running.
ReleaseLocals ==
    /\ workers' = 1
    /\ folders' = <<>>
    /\ index_futures' = <<>>
    /\ paths' = <<>>
    /\ pending' = {}
    /\ existing_paths' = <<>>
    /\ count' = 0
    /\ canceled' = FALSE
    /\ upsertCalls' = 0
    /\ progress_calls' = <<>>

\* IndexWorker.run starts: a fresh worker object (cancel flag clear) opens
\* its own connection, which sees the committed state.
StartRun ==
    /\ pc = "idle"
    /\ \E w \in {1, 2} : workers' = w
    /\ \E f \in FolderLists : folders' = f
    /\ json_path' = NoPath
    /\ pc' = "clear_all"
    /\ preRun' = committed
    /\ cancel_event' = FALSE
    /\ signals' = <<>>
    /\ UNCHANGED <<thumbVars, storeVars, disk, finderVars, extractVars,
                   windowVars, lastOp, index_futures, snapshot, prevRun, paths,
                   pending, existing_paths, count, canceled, upsertCalls,
                   progress_calls>>

\* Any other caller of build_index, such as cli.main: it may name a snapshot
\* file (one that does not exist yet) and pass a cancel_check.
CallBuildIndex ==
    /\ pc = "idle"
    /\ \E w \in {1, 2} : workers' = w
    /\ \E f \in FolderLists : folders' = f
    /\ \E j \in {NoPath, "index.json"} : json_path' = j
    /\ pc' = "clear_all"
    /\ preRun' = committed
    /\ cancel_event' = FALSE
    /\ signals' = <<>>
    /\ UNCHANGED <<thumbVars, storeVars, disk, finderVars, extractVars,
                   windowVars, lastOp, index_futures, snapshot, prevRun, paths,
                   pending, existing_paths, count, canceled, upsertCalls,
                   progress_calls>>

\* The states of a future of a ThreadPoolExecutor
Queued(path) == [state |-> "queued", path |-> path]
Cancelled == [state |-> "cancelled"]
Done(item) == [state |-> "done", item |-> item]

\* "if workers > 1 and total > 0": build_item runs in a pool
IndexPooled == workers > 1 /\ Len(paths) > 0

\* build_index: self.repo.clear_all(), then the enumeration of the paths;
\* with a pool every path is submitted at once
ClearAllStep ==
    /\ pc = "clear_all"
    /\ paths' = iter_images(folders)
    /\ pending' = 1..Len(paths')
    /\ index_futures' = IF workers > 1 /\ Len(paths') > 0
                        THEN [i \in 1..Len(paths') |-> Queued(paths'[i])] ELSE <<>>
    /\ pc' = IF Len(paths') = 0 THEN "delete_missing" ELSE "loop"
    /\ images' = clear_all(Db).images
    /\ images_fts' = clear_all(Db).images_fts
    /\ committed' = AfterStatement(committed, clear_all(Db))
    /\ existing_paths' = <<>>
    /\ count' = 0
    /\ canceled' = FALSE
    /\ upsertCalls' = 0
    /\ UNCHANGED <<folders, json_path, snapshot, prevRun, thumbVars, disk,
                   finderVars, extractVars, windowVars, lastOp, workers,
                   cancel_event, signals, preRun, progress_calls>>

\* The unit the writer loop consumes next: the next enumerated path when
\* sequential, any completed future when a pool is used.
\* A sequential loop that takes the paths in any order
NextUnitsAnyOrder ==
    IF IndexPooled THEN { i \in pending : index_futures[i].state = "done" }
    ELSE pending

NextUnits ==
    IF IndexPooled THEN { i \in pending : index_futures[i].state = "done" }
    ELSE { i \in pending : \A j \in pending : i <= j }

\* item = future.result(), or item = build_item(path) without a pool
UnitItem(i) == IF IndexPooled THEN index_futures[i].item ELSE build_item(paths[i])

\* count += 1 placed before the "if not item: continue"
NextCountEveryUnit(c, item) == c + 1

\* count after a unit: a skipped unit (if not item: continue) is not counted
NextCount(c, item) == IF ~item.built THEN c ELSE c + 1

\* on_progress(completed, total, path): completed is the pool loop's own
\* counter (completed += 1 on every pass that found the flag clear), and the
\* position idx of the path without a pool
ProgressCall(i) ==
    [completed |-> IF IndexPooled THEN Len(paths) - Cardinality(pending) + 1
                   ELSE i,
     total |-> Len(paths),
     path |-> paths[i]]

\* One pass of the writer loop with the cancel flag clear: should_cancel() is
\* false, on_progress is called, then the item is taken and upserted.
ConsumeUnit ==
    /\ pc = "loop"
    /\ ~cancel_event
    /\ \E i \in NextUnits :
         LET item == UnitItem(i)
             db == IF ~item.built THEN Db
                   ELSE upsert_image(Db, item.path, item.filename, item.mtime,
                                     item.size, item.metadata, item.metadata_text)
         IN  /\ images' = db.images
             /\ images_fts' = db.images_fts
             /\ committed' = AfterStatement(committed, db)
             /\ existing_paths' = IF ~item.built THEN existing_paths
                                  ELSE Append(existing_paths, item.path)
             /\ count' = NextCount(count, item)
             /\ upsertCalls' = IF ~item.built THEN upsertCalls ELSE upsertCalls + 1
             /\ progress_calls' = Append(progress_calls, ProgressCall(i))
             /\ pending' = pending \ {i}
             /\ pc' = IF pending' = {} THEN "delete_missing" ELSE "loop"
    /\ UNCHANGED <<folders, json_path, index_futures, snapshot, prevRun,
                   thumbVars, disk, finderVars, extractVars, windowVars, lastOp,
                   workers, paths, canceled, cancel_event, signals, preRun>>

\* A canceled branch that polls the flag again instead of leaving the loop
PollFlagAgain == "loop"

\* break: out of the loop, through the finally clause when there is a pool
BreakFromLoop == IF IndexPooled THEN "shutdown" ELSE "delete_missing"

\* should_cancel() returns true at a unit boundary: canceled = True; break
ObserveCancel ==
    /\ pc = "loop"
    /\ NextUnits # {}
    /\ cancel_event
    /\ canceled' = TRUE
    /\ pc' = BreakFromLoop
    /\ UNCHANGED <<folders, json_path, index_futures, snapshot, prevRun,
                   thumbVars, storeVars, disk, finderVars, extractVars,
                   windowVars, lastOp, workers, paths, pending, existing_paths,
                   count, cancel_event, signals, preRun, upsertCalls,
                   progress_calls>>

\* The finally clause after the break: executor.shutdown(wait=False,
\* cancel_futures=True) cancels what is still queued and does not wait.
IndexShutdown ==
    /\ pc = "shutdown"
    /\ index_futures' = [i \in DOMAIN index_futures |->
           IF index_futures[i].state = "queued" THEN Cancelled ELSE index_futures[i]]
    /\ pc' = "delete_missing"
    /\ UNCHANGED <<thumbVars, storeVars, disk, finderVars, extractVars,
                   windowVars, lastOp, workers, folders, json_path, snapshot,
                   prevRun, paths, pending, existing_paths, count, canceled,
                   cancel_event, signals, preRun, upsertCalls, progress_calls>>

\* A pool thread that also stores the record it has built
IndexPoolRunUpserting ==
    /\ \E i \in DOMAIN index_futures :
         /\ index_futures[i].state = "queued"
         /\ \A j \in DOMAIN index_futures :
               index_futures[j].state = "queued" => i <= j
         /\ LET item == build_item(index_futures[i].path)
                db == IF ~item.built THEN Db
                      ELSE upsert_image(Db, item.path, item.filename, item.mtime,
                                        item.size, item.metadata, item.metadata_text)
            IN  /\ index_futures' = [index_futures EXCEPT ![i] = Done(item)]
                /\ images' = db.images
                /\ images_fts' = db.images_fts
    /\ UNCHANGED <<thumbVars, committed, disk, finderVars, extractVars,
                   windowVars, lastOp, pc, workers, folders, json_path,
                   snapshot, prevRun, paths, pending, existing_paths, count,
                   canceled, cancel_event, signals, preRun, upsertCalls,
                   progress_calls>>

\* A pool thread takes the unit submitted first among those still queued
\* (the work queue is first in, first out) and runs build_item on it: stat,
\* extract, build the record; the future holds the record, or None.
\* build_item only reads the files, which do not change during a run, so
\* taking the unit and finishing it are one step.
IndexPoolRun ==
    /\ \E i \in DOMAIN index_futures :
         /\ index_futures[i].state = "queued"
         /\ \A j \in DOMAIN index_futures :
               index_futures[j].state = "queued" => i <= j
         /\ index_futures' = [index_futures EXCEPT
                               ![i] = Done(build_item(index_futures[i].path))]
    /\ UNCHANGED <<thumbVars, storeVars, disk, finderVars, extractVars,
                   windowVars, lastOp, pc, workers, folders, json_path,
                   snapshot, prevRun, paths, pending, existing_paths, count,
                   canceled, cancel_event, signals, preRun, upsertCalls,
                   progress_calls>>

\* self.repo.delete_missing(existing_paths)
DeleteMissingStep ==
    /\ pc = "delete_missing"
    /\ LET db == delete_missing(Db, Range(existing_paths))
       IN  /\ images' = db.images
           /\ images_fts' = db.images_fts
           /\ committed' = AfterStatement(committed, db)
    /\ pc' = "commit"
    /\ progress_calls' = <<>>
    /\ UNCHANGED <<folders, json_path, index_futures, snapshot, prevRun,
                   thumbVars, disk, finderVars, extractVars, windowVars, lastOp,
                   workers, paths, pending, existing_paths, count, canceled,
                   cancel_event, signals, preRun, upsertCalls>>

\* "if json_path" alone
WritesSnapshotWhenNamed(path, was_canceled) == path # NoPath

\* "if json_path and not canceled"
WritesSnapshot(path, was_canceled) == path # NoPath /\ ~was_canceled

\* self.repo.commit(); without a snapshot to write build_index returns count
CommitStep ==
    /\ pc = "commit"
    /\ committed' = Db
    /\ pc' = IF WritesSnapshot(json_path, canceled) THEN "export" ELSE "return"
    /\ UNCHANGED <<folders, json_path, index_futures, snapshot, prevRun,
                   thumbVars, images, images_fts, disk, finderVars, extractVars,
                   windowVars, lastOp, workers, paths, pending, existing_paths,
                   count, canceled, cancel_event, signals, preRun, upsertCalls,
                   progress_calls>>

\* json.loads(r[4]): the mapping the text was dumped from
JsonLoads(text) == text.json

\* The rows of all_images() (table order) as the entries of the snapshot
RECURSIVE SnapshotRows(_)
SnapshotRows(imgs) ==
    IF imgs = {} THEN <<>>
    ELSE LET r == CHOOSE x \in imgs : \A y \in imgs : x.id <= y.id
         IN  <<[path |-> r.path, filename |-> r.filename, mtime |-> r.mtime,
                size |-> r.size, metadata |-> JsonLoads(r.metadata_json)]>>
             \o SnapshotRows(imgs \ {r})

\* json_path.write_text(json.dumps(rows)), then build_index returns count
ExportStep ==
    /\ pc = "export"
    /\ snapshot' = [written |-> TRUE, rows |-> SnapshotRows(images)]
    /\ pc' = "return"
    /\ UNCHANGED <<thumbVars, storeVars, disk, finderVars, extractVars,
                   windowVars, lastOp, workers, folders, json_path,
                   index_futures, prevRun, paths, pending, existing_paths,
                   count, canceled, cancel_event, signals, preRun, upsertCalls,
                   progress_calls>>

\* build_index has returned its count to a caller other than IndexWorker,
\* which closes the repository and takes the snapshot file.
CallerReturns ==
    /\ pc = "return"
    /\ pc' = "idle"
    /\ cancel_event' = FALSE
    /\ preRun' = committed
    /\ json_path' = NoPath
    /\ snapshot' = NoFile
    /\ prevRun' = NoRun
    /\ ReleaseLocals
    /\ UNCHANGED <<thumbVars, storeVars, disk, finderVars, extractVars,
                   windowVars, lastOp, signals>>

\* A store operation raises (disk full, corruption, permission).  clear_all
\* and upsert_image are two statements each: the first may have run.  In the
\* pooled loop the finally clause runs executor.shutdown(wait=True,
\* cancel_futures=True) on the way out.
StoreFails ==
    /\ \/ /\ pc = "clear_all"
          /\ \E first \in BOOLEAN :
               /\ images_fts' = IF first THEN {} ELSE images_fts
               /\ images' = images
               /\ committed' = AfterStatement(committed,
                                   [images |-> images, images_fts |-> images_fts'])
       \/ /\ pc = "loop" /\ ~cancel_event
          /\ \E i \in NextUnits :
               /\ UnitItem(i).built
               /\ \E first \in BOOLEAN :
                    LET item == UnitItem(i)
                    IN  /\ images' = IF first
                                     THEN UpsertImagesRow(images, item.path,
                                              item.filename, item.mtime, item.size,
                                              item.metadata)
                                     ELSE images
                        /\ images_fts' = images_fts
                        /\ committed' = AfterStatement(committed,
                                   [images |-> images', images_fts |-> images_fts])
       \/ /\ pc \in {"delete_missing", "commit"}
          /\ UNCHANGED storeVars
    /\ pc' = "except"
    /\ ReleaseLocals
    /\ UNCHANGED <<thumbVars, disk, finderVars, extractVars, windowVars, lastOp,
                   json_path, snapshot, prevRun, cancel_event, signals, preRun>>

\* ------------------------------------------------- IndexWorker.run ends
Signal(sig, n) == [sig |-> sig, count |-> n]

\* repo.close(), then canceled.emit(count) or finished.emit(count)
EmitTerminal ==
    /\ pc = "return"
    /\ signals' = Append(signals, IF cancel_event THEN Signal("canceled", count)
                                  ELSE Signal("finished", count))
    /\ prevRun' = IF canceled THEN NoRun
                  ELSE [folders |-> folders, workers |-> workers, count |-> count]
    /\ pc' = "done"
    /\ ReleaseLocals
    /\ UNCHANGED <<thumbVars, storeVars, disk, finderVars, extractVars,
                   windowVars, lastOp, json_path, snapshot, cancel_event,
                   preRun>>

\* An exception handler that commits before it reports.
EmitFailedAfterCommit ==
    /\ pc = "except"
    /\ signals' = Append(signals, [sig |-> "failed", count |-> 0])
    /\ committed' = Db
    /\ prevRun' = NoRun
    /\ pc' = "done"
    /\ UNCHANGED <<folders, json_path, index_futures, snapshot, thumbVars,
                   images, images_fts, disk, finderVars, extractVars,
                   windowVars, lastOp, workers, paths, pending, existing_paths,
                   count, canceled, cancel_event, preRun, upsertCalls,
                   progress_calls>>

\* except Exception: failed.emit(str(exc)).  The connection is never
\* committed nor closed: it is dropped with the worker, which rolls back.
EmitFailed ==
    /\ pc = "except"
    /\ signals' = Append(signals, Signal("failed", 0))
    /\ images' = committed.images
    /\ images_fts' = committed.images_fts
    /\ prevRun' = NoRun
    /\ pc' = "done"
    /\ UNCHANGED <<folders, json_path, index_futures, snapshot, thumbVars,
                   committed, disk, finderVars, extractVars, windowVars, lastOp,
                   workers, paths, pending, existing_paths, count, canceled,
                   cancel_event, preRun, upsertCalls, progress_calls>>

\* The thread has ended and the main window has handled its signal.
WorkerGone ==
    /\ pc = "done"
    /\ pc' = "idle"
    /\ signals' = <<>>
    /\ cancel_event' = FALSE
    /\ preRun' = committed
    /\ json_path' = NoPath
    /\ snapshot' = NoFile
    /\ UNCHANGED <<thumbVars, storeVars, disk, finderVars, extractVars,
                   windowVars, lastOp, workers, folders, index_futures, prevRun,
                   paths, pending, existing_paths, count, canceled, upsertCalls,
                   progress_calls>>

\* MainWindow.cancel_index -> IndexWorker.cancel, while the worker runs
CancelIndex ==
    /\ pc \in InRun \cup {"return", "except"}
    /\ ~cancel_event
    /\ cancel_event' = TRUE
    /\ UNCHANGED <<folders, json_path, index_futures, snapshot, prevRun,
                   thumbVars, storeVars, disk, finderVars, extractVars,
                   windowVars, lastOp, pc, workers, paths, pending,
                   existing_paths, count, canceled, signals, preRun,
                   upsertCalls, progress_calls>>

\* Between two runs the files change: created, rewritten, removed, or
\* replaced by a dangling link.
FsChange ==
    /\ pc = "idle"
    /\ thumb_pc = "idle"
    /\ \E p \in Paths, v \in Vers \cup {None, Broken} :
         /\ v # disk[p]
         /\ disk' = [disk EXCEPT ![p] = v]
    /\ prevRun' = NoRun
    /\ UNCHANGED <<finderVars, extractVars, windowVars>>
    /\ UNCHANGED <<storeVars, lastOp, thumbVars, pc, workers, folders,
                   json_path, index_futures, snapshot, paths, pending,
                   existing_paths, count, canceled, cancel_event, signals,
                   preRun, upsertCalls, progress_calls>>

Next ==
    \/ StartRun \/ ClearAllStep \/ IndexPoolRun
    \/ ConsumeUnit \/ ObserveCancel \/ IndexShutdown
    \/ DeleteMissingStep \/ CommitStep \/ StoreFails
    \/ EmitTerminal \/ EmitFailed \/ WorkerGone \/ CancelIndex \/ FsChange

Spec == Init /\ [][Next]_vars

\* build_index under any caller: no store failure, a snapshot file or none.
NextBuild ==
    \/ CallBuildIndex \/ ClearAllStep \/ IndexPoolRun
    \/ ConsumeUnit \/ ObserveCancel \/ IndexShutdown
    \/ DeleteMissingStep \/ CommitStep \/ ExportStep \/ CallerReturns
    \/ CancelIndex \/ FsChange

SpecBuild == Init /\ [][NextBuild]_vars

\* ------------------------------------------------------ thumbnail cache
\* thumb_cache_path: the cache file of a path is named by the digest of
\* "path|mtime|size", or of the path alone when stat raises OSError.
thumb_cache_path(path) ==
    IF disk[path] \in Vers THEN <<path, disk[path]>> ELSE <<path, None>>

\* The files of the cache directory: name (key) and content
CacheKeys(files) == { f.key : f \in files }

\* cache_path.exists()
CacheExists(files, cache_path) == cache_path \in CacheKeys(files)

\* A save that also removes the entries of older versions of the same source
SaveCacheEvictingStale(files, cache_path, content) ==
    { f \in files : f.key[1] # cache_path[1] }
        \cup {[key |-> cache_path, content |-> content]}

\* image.save(str(cache_path), "PNG"): the file is created or overwritten
SaveCache(files, cache_path, content) ==
    { f \in files : f.key # cache_path }
        \cup {[key |-> cache_path, content |-> content]}

\* The EXIF orientation tag of the photo at a path: the first file is a
\* portrait photo (orientation 6: to be shown rotated), the others are
\* upright (orientation 1)
Orientation(path) == IF path = 1 THEN 6 ELSE 1

\* QImageReader(path) with setAutoTransform(True): read() gives the pixels of
\* the file with its EXIF orientation applied
ReaderRead(path) ==
    [pixels |-> <<path, disk[path]>>, transformed |-> Orientation(path)]

\* QPixmap(path): the pixels of the file as stored; the orientation tag is
\* not applied (orientation 1 is the identity)
PixmapLoad(path) == [pixels |-> <<path, disk[path]>>, transformed |-> 1]

\* scaled(144, 144, Qt.KeepAspectRatio, Qt.SmoothTransformation)
Scaled(image) ==
    [pixels |-> image.pixels, transformed |-> image.transformed, box |-> 144]

\* SearchModel._max_thumb_bytes (200 MiB): a file of version 2 is larger
ModelMaxThumbBytes == 1

\* build_thumb that does not look for the cache file
ThumbPlanWithoutLookup(path) ==
    IF disk[path] \notin Vers THEN "skip"
    ELSE IF disk[path] > max_thumb_bytes THEN "skip"
    ELSE "decode"

\* build_thumb up to the decision to decode: thumb_cache_path (stat),
\* cache_path.exists(), os.path.getsize (OSError, or larger than
\* max_thumb_bytes: skip).  The size of a file is its version number.
ThumbPlan(path) ==
    IF CacheExists(cache_files, thumb_cache_path(path)) THEN "hit"
    ELSE IF disk[path] \notin Vers THEN "skip"
    ELSE IF disk[path] > max_thumb_bytes THEN "skip"
    ELSE "decode"

\* What build_thumb has called by the end of a plan
PlanOps(plan) ==
    IF plan = "hit" THEN <<"stat", "exists">>
    ELSE IF plan = "skip" THEN <<"stat", "exists", "getsize">>
    ELSE <<"stat", "exists", "getsize", "read">>

\* The rest of build_thumb with a decode failure raising instead of giving a
\* null image
FinishThumbRaising(path, plan, decoded) ==
    IF plan = "hit"
    THEN [result |-> TRUE, raised |-> FALSE, files |-> cache_files,
          ops |-> PlanOps(plan)]
    ELSE IF plan = "skip"
    THEN [result |-> FALSE, raised |-> FALSE, files |-> cache_files,
          ops |-> PlanOps(plan)]
    ELSE IF ~decoded
    THEN [result |-> FALSE, raised |-> TRUE, files |-> cache_files,
          ops |-> PlanOps(plan)]
    ELSE [result |-> TRUE, raised |-> FALSE,
          files |-> SaveCache(cache_files, thumb_cache_path(path),
                              Scaled(ReaderRead(path))),
          ops |-> PlanOps(plan) \o <<"scaled", "save">>]

\* The rest of build_thumb: its result, whether it raised, the cache
\* directory after it and what it called.  decoded says whether reading,
\* scaling and saving the image succeed; each of them reports a failure by
\* its value (a null image, False), none raises.
FinishThumb(path, plan, decoded) ==
    IF plan = "hit"
    THEN [result |-> TRUE, raised |-> FALSE, files |-> cache_files,
          ops |-> PlanOps(plan)]
    ELSE IF plan = "skip"
    THEN [result |-> FALSE, raised |-> FALSE, files |-> cache_files,
          ops |-> PlanOps(plan)]
    ELSE IF ~decoded
    THEN [result |-> FALSE, raised |-> FALSE, files |-> cache_files,
          ops |-> PlanOps(plan)]
    ELSE [result |-> TRUE, raised |-> FALSE,
          files |-> SaveCache(cache_files, thumb_cache_path(path),
                              Scaled(ReaderRead(path))),
          ops |-> PlanOps(plan) \o <<"scaled", "save">>]

\* build_thumb(path) run in one piece
build_thumb(path, decoded) == FinishThumb(path, ThumbPlan(path), decoded)

\* SearchModel.data without its size check
data_without_size_check(path, decoded) ==
    LET cache_path == thumb_cache_path(path)
    IN  IF CacheExists(cache_files, cache_path)
        THEN [result |-> TRUE, files |-> cache_files,
              ops |-> <<"stat", "exists", "load_cache">>]
        ELSE IF disk[path] \notin Vers \/ ~decoded
        THEN [result |-> FALSE, files |-> cache_files,
              ops |-> <<"stat", "exists", "read">>]
        ELSE [result |-> TRUE,
              files |-> SaveCache(cache_files, cache_path,
                                  Scaled(PixmapLoad(path))),
              ops |-> <<"stat", "exists", "read", "scaled", "save">>]

\* SearchModel.data(index, Qt.DecorationRole) for a row without a pixmap yet:
\* whether it returns a pixmap, the cache directory after it and what it
\* called.
data(path, decoded) ==
    LET cache_path == thumb_cache_path(path)
    IN  IF CacheExists(cache_files, cache_path)
        THEN [result |-> TRUE, files |-> cache_files,
              ops |-> <<"stat", "exists", "load_cache">>]
        ELSE IF disk[path] \notin Vers
        THEN [result |-> FALSE, files |-> cache_files,
              ops |-> <<"stat", "exists", "getsize">>]
        ELSE IF disk[path] > ModelMaxThumbBytes
        THEN [result |-> FALSE, files |-> cache_files,
              ops |-> <<"stat", "exists", "getsize">>]
        ELSE IF ~decoded
        THEN [result |-> FALSE, files |-> cache_files,
              ops |-> <<"stat", "exists", "getsize", "read">>]
        ELSE [result |-> TRUE,
              files |-> SaveCache(cache_files, cache_path,
                                  Scaled(PixmapLoad(path))),
              ops |-> <<"stat", "exists", "getsize", "read", "scaled", "save">>]

\* ------------------------------------------------------ ThumbWorker.run
ThumbSignal(sig, c, total) == [sig |-> sig, cached |-> c, total |-> total]

Pooled == thumb_workers > 1 /\ Len(thumb_paths) > 0

FutureDone(i) == futures[i] \in {"true", "false", "raised"}

\* The canceled branch without its return: control falls out of the loop.
FallThroughLoop == "after_loop"

\* Where the canceled branch inside the loop leaves run: it returns.
ReturnFromLoop == "done"

\* MainWindow.build_thumbnails constructs and starts the worker.
\* The longest list of paths a ThumbWorker is given
MaxBatch == 2

ThumbStart ==
    /\ thumb_pc = "idle"
    /\ \E w \in {1, 2}, m \in Vers, n \in 1..MaxBatch :
         /\ thumb_workers' = w
         /\ max_thumb_bytes' = m
         /\ thumb_paths' = AscSeq(1..n)
    /\ thumb_cancel_event' = FALSE
    /\ thumb_signals' = <<>>
    /\ futures' = <<>>
    /\ thumb_pc' = "mkdir"
    /\ UNCHANGED <<storeVars, disk, finderVars, extractVars, windowVars, lastOp,
                   runVars, thumb_pending, cached, cache_files>>

\* cache_dir.mkdir succeeds; with a pool every path is submitted at once
ThumbMkdir ==
    /\ thumb_pc = "mkdir"
    /\ cached' = 0
    /\ thumb_pending' = 1..Len(thumb_paths)
    /\ futures' = IF Pooled THEN [i \in 1..Len(thumb_paths) |-> "queued"] ELSE <<>>
    /\ thumb_pc' = IF Len(thumb_paths) = 0 THEN "after_loop" ELSE "loop"
    /\ UNCHANGED <<storeVars, disk, finderVars, extractVars, windowVars, lastOp,
                   runVars, thumb_workers, thumb_paths, max_thumb_bytes,
                   thumb_cancel_event, thumb_signals, cache_files>>

\* cache_dir.mkdir raises
ThumbMkdirFails ==
    /\ thumb_pc = "mkdir"
    /\ thumb_pc' = "except"
    /\ UNCHANGED <<storeVars, disk, finderVars, extractVars, windowVars, lastOp,
                   runVars, thumb_workers, thumb_paths, max_thumb_bytes,
                   thumb_cancel_event, thumb_pending, futures, cached,
                   thumb_signals, cache_files>>

\* The states of a future whose build_thumb is running: what it has decided
ThumbRunning == {"hit", "skip", "decode"}

\* A pool thread takes the unit submitted first among those still queued (at
\* most max_workers run at a time) and runs build_thumb up to its decision.
PoolStart ==
    /\ \E i \in DOMAIN futures :
         /\ futures[i] = "queued"
         /\ \A j \in DOMAIN futures : futures[j] = "queued" => i <= j
         /\ Cardinality({ j \in DOMAIN futures : futures[j] \in ThumbRunning })
              < thumb_workers
         /\ futures' = [futures EXCEPT ![i] = ThumbPlan(thumb_paths[i])]
    /\ UNCHANGED <<storeVars, disk, finderVars, extractVars, windowVars, lastOp,
                   runVars, thumb_pc, thumb_workers, thumb_paths,
                   max_thumb_bytes, thumb_cancel_event, thumb_pending, cached,
                   thumb_signals, cache_files>>

\* A pool thread finishes build_thumb for its unit.
PoolFinish ==
    /\ \E i \in DOMAIN futures, decoded \in BOOLEAN :
         /\ futures[i] \in ThumbRunning
         /\ LET r == FinishThumb(thumb_paths[i], futures[i], decoded)
            IN  /\ cache_files' = r.files
                /\ futures' = [futures EXCEPT
                                  ![i] = IF r.raised THEN "raised"
                                         ELSE IF r.result THEN "true" ELSE "false"]
    /\ UNCHANGED <<storeVars, disk, finderVars, extractVars, windowVars, lastOp,
                   runVars, thumb_pc, thumb_workers, thumb_paths,
                   max_thumb_bytes, thumb_cancel_event, thumb_pending, cached,
                   thumb_signals>>

\* One pass of the sequential loop with the cancel flag clear.
ThumbUnitSequential ==
    /\ thumb_pc = "loop"
    /\ ~Pooled
    /\ ~thumb_cancel_event
    /\ \E decoded \in BOOLEAN :
         LET i == CHOOSE k \in thumb_pending : \A j \in thumb_pending : k <= j
             r == build_thumb(thumb_paths[i], decoded)
         IN  /\ cache_files' = r.files
             /\ cached' = IF r.result THEN cached + 1 ELSE cached
             /\ thumb_pending' = thumb_pending \ {i}
             /\ thumb_pc' = IF r.raised THEN "except"
                            ELSE IF thumb_pending' = {} THEN "after_loop"
                            ELSE "loop"
    /\ UNCHANGED <<storeVars, disk, finderVars, extractVars, windowVars, lastOp,
                   runVars, thumb_workers, thumb_paths, max_thumb_bytes,
                   thumb_cancel_event, futures, thumb_signals>>

\* One pass of the as_completed loop with the cancel flag clear; after the
\* last one the finally clause shuts the (idle) pool down.  future.result()
\* raises what build_thumb raised: the finally clause then cancels what is
\* queued on the way to the except clause.
ThumbUnitPooled ==
    /\ thumb_pc = "loop"
    /\ Pooled
    /\ ~thumb_cancel_event
    /\ \E i \in thumb_pending :
         /\ FutureDone(i)
         /\ cached' = IF futures[i] = "true" THEN cached + 1 ELSE cached
         /\ thumb_pending' = thumb_pending \ {i}
         /\ thumb_pc' = IF futures[i] = "raised" THEN "except"
                        ELSE IF thumb_pending' = {} THEN "after_loop"
                        ELSE "loop"
         /\ futures' = IF futures[i] = "raised"
                       THEN [j \in DOMAIN futures |->
                               IF futures[j] = "queued" THEN "cancelled"
                               ELSE futures[j]]
                       ELSE futures
    /\ UNCHANGED <<storeVars, disk, finderVars, extractVars, windowVars, lastOp,
                   runVars, thumb_workers, thumb_paths, max_thumb_bytes,
                   thumb_cancel_event, thumb_signals, cache_files>>

\* The loop sees the cancel flag at a unit boundary: canceled.emit(cached,
\* total); return.  With a pool the return passes through the finally
\* clause.
ThumbObserveCancel ==
    /\ thumb_pc = "loop"
    /\ thumb_cancel_event
    /\ IF Pooled THEN \E i \in thumb_pending : FutureDone(i)
       ELSE thumb_pending # {}
    /\ thumb_signals' = Append(thumb_signals,
                           ThumbSignal("canceled", cached, Len(thumb_paths)))
    /\ thumb_pc' = IF Pooled THEN "shutdown" ELSE ReturnFromLoop
    /\ UNCHANGED <<storeVars, disk, finderVars, extractVars, windowVars, lastOp,
                   runVars, thumb_workers, thumb_paths, max_thumb_bytes,
                   thumb_cancel_event, thumb_pending, futures, cached,
                   cache_files>>

\* The finally clause on the way out of the canceled loop:
\* executor.shutdown(wait=False, cancel_futures=True) cancels what is still
\* queued and does not wait.
ThumbShutdown ==
    /\ thumb_pc = "shutdown"
    /\ futures' = [i \in DOMAIN futures |->
                     IF futures[i] = "queued" THEN "cancelled" ELSE futures[i]]
    /\ thumb_pc' = ReturnFromLoop
    /\ UNCHANGED <<storeVars, disk, finderVars, extractVars, windowVars, lastOp,
                   runVars, thumb_workers, thumb_paths, max_thumb_bytes,
                   thumb_cancel_event, thumb_pending, cached, thumb_signals,
                   cache_files>>

\* After the loop: canceled.emit or finished.emit
ThumbAfterLoop ==
    /\ thumb_pc = "after_loop"
    /\ thumb_signals' = Append(thumb_signals,
           IF thumb_cancel_event
           THEN ThumbSignal("canceled", cached, Len(thumb_paths))
           ELSE ThumbSignal("finished", cached, Len(thumb_paths)))
    /\ thumb_pc' = "done"
    /\ UNCHANGED <<storeVars, disk, finderVars, extractVars, windowVars, lastOp,
                   runVars, thumb_workers, thumb_paths, max_thumb_bytes,
                   thumb_cancel_event, thumb_pending, futures, cached,
                   cache_files>>

\* except Exception: failed.emit(str(exc))
ThumbEmitFailed ==
    /\ thumb_pc = "except"
    /\ thumb_signals' = Append(thumb_signals, ThumbSignal("failed", 0, 0))
    /\ thumb_pc' = "done"
    /\ UNCHANGED <<storeVars, disk, finderVars, extractVars, windowVars, lastOp,
                   runVars, thumb_workers, thumb_paths, max_thumb_bytes,
                   thumb_cancel_event, thumb_pending, futures, cached,
                   cache_files>>

\* The thread has ended, the main window has handled its signal and the
\* units that were still running in the pool have finished: the worker
\* object and its pool are discarded.
ThumbGone ==
    /\ thumb_pc = "done"
    /\ \A i \in DOMAIN futures : futures[i] \notin ThumbRunning
    /\ thumb_pc' = "idle"
    /\ thumb_signals' = <<>>
    /\ thumb_cancel_event' = FALSE
    /\ thumb_workers' = 1
    /\ thumb_paths' = <<>>
    /\ max_thumb_bytes' = 1
    /\ thumb_pending' = {}
    /\ futures' = <<>>
    /\ cached' = 0
    /\ UNCHANGED <<storeVars, disk, finderVars, extractVars, windowVars, lastOp,
                   runVars, cache_files>>

\* MainWindow.cancel_thumbnails -> ThumbWorker.cancel, while the worker runs
CancelThumbs ==
    /\ thumb_pc \in {"mkdir", "loop", "after_loop", "except"}
    /\ ~thumb_cancel_event
    /\ thumb_cancel_event' = TRUE
    /\ UNCHANGED <<storeVars, disk, finderVars, extractVars, windowVars, lastOp,
                   runVars, thumb_pc, thumb_workers, thumb_paths,
                   max_thumb_bytes, thumb_pending, futures, cached,
                   thumb_signals, cache_files>>

\* The table view asks SearchModel.data for the preview of a row that has no
\* pixmap yet (any indexed path, at any time: the view paints while a
\* ThumbWorker runs).
ModelData ==
    /\ \E path \in Paths, decoded \in BOOLEAN :
         cache_files' = data(path, decoded).files
    /\ UNCHANGED <<storeVars, disk, finderVars, extractVars, windowVars, lastOp,
                   runVars, thumb_pc, thumb_workers, thumb_paths,
                   max_thumb_bytes, thumb_cancel_event, thumb_pending, futures,
                   cached, thumb_signals>>

\* A source file is replaced (a new mtime and size), deleted or created
\* while no worker runs.
SourceChanges ==
    /\ pc = "idle"
    /\ thumb_pc = "idle"
    /\ \E p \in Paths, v \in Vers \cup {None} :
         /\ v # disk[p]
         /\ disk' = [disk EXCEPT ![p] = v]
    /\ UNCHANGED <<finderVars, extractVars, windowVars>>
    /\ UNCHANGED <<storeVars, lastOp, runVars, thumbVars>>

NextThumb ==
    \/ ThumbStart \/ ThumbMkdir \/ ThumbMkdirFails \/ PoolStart \/ PoolFinish
    \/ ThumbUnitSequential \/ ThumbUnitPooled \/ ThumbObserveCancel
    \/ ThumbShutdown
    \/ ThumbAfterLoop \/ ThumbEmitFailed \/ ThumbGone \/ CancelThumbs
    \/ ModelData \/ SourceChanges

SpecThumb == Init /\ [][NextThumb]_vars

\* Both workers.  The two threads share no state (one writes the database,
\* the other the cache directory), so their steps commute and one worker is
\* run at a time.
NextWorkers ==
    \/ (StartRun /\ thumb_pc = "idle")
    \/ ClearAllStep \/ IndexPoolRun
    \/ ConsumeUnit \/ ObserveCancel \/ IndexShutdown
    \/ DeleteMissingStep \/ CommitStep \/ StoreFails
    \/ EmitTerminal \/ EmitFailed \/ WorkerGone \/ CancelIndex
    \/ (ThumbStart /\ pc = "idle")
    \/ ThumbMkdir \/ ThumbMkdirFails \/ PoolStart \/ PoolFinish
    \/ ThumbUnitSequential \/ ThumbUnitPooled \/ ThumbObserveCancel
    \/ ThumbShutdown
    \/ ThumbAfterLoop \/ ThumbEmitFailed \/ ThumbGone \/ CancelThumbs

SpecWorkers == Init /\ [][NextWorkers]_vars

\* --------------------------------------------------------------- C12
\* The successive pages of a query, until the first empty page
RECURSIVE Pages(_, _, _, _)
Pages(db, query, limit, offset) ==
    LET page == search_images(db, query, limit, offset).rows
    IN  IF page = <<>> THEN <<>>
        ELSE page \o Pages(db, query, limit, offset + limit)

\* The records a query is about: every record for a blank query, else the
\* records whose index row holds the word of the query.
Matching(db, query) ==
    IF strip(query) = <<>> THEN db.images
    ELSE { r \in db.images : \E f \in db.images_fts :
              /\ f.rowid = r.id
              /\ \A i \in 1..Len(strip(query)) :
                    strip(query)[i] # SP => Occurrences(f, strip(query)[i]) > 0 }

CountIsSearchTotal ==
    lastOp.op = "count_images" =>
        /\ lastOp.result.ok = search_images(Db, lastOp.query, 1, 0).ok
        /\ lastOp.result.ok =>
              /\ \A limit \in 1..MaxLimit :
                    lastOp.result.count = Len(Pages(Db, lastOp.query, limit, 0))
              /\ strip(lastOp.query) = <<>> =>
                    lastOp.result.count = Cardinality(images)

\* a word query that some records match and others do not
CountIsSearchTotalWitness ==
    /\ lastOp.op = "count_images" /\ lastOp.query = <<"v2">>
    /\ lastOp.result.ok
    /\ lastOp.result.count > 0
    /\ lastOp.result.count < Cardinality(images)

\* --------------------------------------------------------------- C14
\* C14: for a blank query search_images does not read the search index and
\* returns primary records in non-decreasing filename order; for any other
\* query every row it returns is the primary record whose id is the rowid of
\* an index row that matches the query.
BlankQueryListsByFilename ==
    lastOp.op = "search_images" =>
        LET rows == lastOp.result.rows
        IN  IF strip(lastOp.query) = <<>>
            THEN /\ lastOp.result.ok
                 /\ rows = search_images([images |-> images, images_fts |-> {}],
                                         lastOp.query, MaxLimit, 0).rows
                 /\ \A i \in 1..Len(rows) : \E r \in images : rows[i] = Row(r)
                 /\ \A i, j \in 1..Len(rows) : i < j => rows[i][3] <= rows[j][3]
                 /\ Len(rows) = IF Cardinality(images) < MaxLimit
                                THEN Cardinality(images) ELSE MaxLimit
            ELSE lastOp.result.ok =>
                 /\ \A i \in 1..Len(rows) :
                      \E r \in Matching(Db, lastOp.query) : rows[i] = Row(r)
                 /\ search_images([images |-> images, images_fts |-> {}],
                                  lastOp.query, MaxLimit, 0).rows = <<>>

\* a blank (not empty) query answered with records of different filenames
BlankQueryListsByFilenameWitness ==
    /\ lastOp.op = "search_images" /\ lastOp.query = <<SP>>
    /\ lastOp.result.ok
    /\ Len(lastOp.result.rows) >= 2
    /\ lastOp.result.rows[1][3] < lastOp.result.rows[2][3]
    /\ lastOp.result.rows[1][1] > lastOp.result.rows[2][1]

\* --------------------------------------------------------------- C15
\* A query that is not blank and holds an unterminated string
Malformed(query) ==
    strip(query) # <<>> /\ \E i \in 1..Len(query) : query[i] = QUOTE

\* C15: a malformed query makes search_images and count_images fail with an
\* error, which is neither an empty result nor a count of 0, and leaves both
\* tables as they were; a well-formed query without a match is answered with
\* an empty result and a count of 0.
MalformedQueryFails ==
    [][ lastOp'.op \in {"search_images", "count_images"} =>
          /\ UNCHANGED storeVars
          /\ Malformed(lastOp'.query) =>
                /\ lastOp'.result = SearchError
                /\ lastOp'.result # [ok |-> TRUE, rows |-> <<>>]
                /\ lastOp'.result # [ok |-> TRUE, count |-> 0]
          /\ ~Malformed(lastOp'.query) =>
                /\ lastOp'.result.ok
                /\ (lastOp'.op = "search_images" /\ lastOp'.query = <<"zzz">>)
                      => lastOp'.result = [ok |-> TRUE, rows |-> <<>>]
                /\ (lastOp'.op = "count_images" /\ lastOp'.query = <<"zzz">>)
                      => lastOp'.result = [ok |-> TRUE, count |-> 0]
      ]_vars

\* an unterminated string searched for in a store that holds records
MalformedQueryFailsWitness ==
    /\ lastOp.op = "search_images" /\ lastOp.query = <<QUOTE>>
    /\ lastOp.result = SearchError
    /\ images # {} /\ images_fts # {}

\* ---------------------------------------------------------------- C1
\* C1: a canceled build_index run removes no record that was committed
\* before the run: every path of the snapshot committed before the run is
\* still in the primary table and in the search index when the run returns.
CanceledRunKeepsRecords ==
    (pc = "return" /\ canceled) =>
        \A r \in preRun.images :
            /\ \E s \in committed.images : s.path = r.path
            /\ \E f \in committed.images_fts : f.path = r.path

\* ---------------------------------------------------------------- C2
\* The enumerated paths whose record build_item can build: stat succeeds.
BuiltPaths == { paths[i] : i \in { j \in 1..Len(paths) : disk[paths[j]] \in Vers } }

\* C2: after a run that was not canceled the paths of the primary table are
\* exactly the enumerated paths whose record was built; a path stored by an
\* earlier run and no longer on disk is in neither table; the search index
\* has as many rows as the primary table.
CompletedRunMatchesDisk ==
    (pc = "return" /\ ~canceled) =>
        /\ { r.path : r \in committed.images } = BuiltPaths
        /\ \A r \in preRun.images : disk[r.path] = None =>
             /\ \A s \in committed.images : s.path # r.path
             /\ \A f \in committed.images_fts : f.path # r.path
        /\ Cardinality(committed.images_fts) = Cardinality(committed.images)

\* N files were indexed, one was removed from disk, the rebuild gives N-1
CompletedRunMatchesDiskWitness ==
    /\ pc = "return" /\ ~canceled
    /\ Cardinality(preRun.images) = MaxPaths
    /\ Cardinality({ r \in preRun.images : disk[r.path] = None }) = 1
    /\ Cardinality(committed.images) = MaxPaths - 1
    /\ Cardinality(committed.images_fts) = MaxPaths - 1

\* ---------------------------------------------------------------- C4
\* C4: a reader on a separate connection never sees an intermediate state of
\* a rebuild: from the clear until the commit it reads the snapshot committed
\* before the run, what it reads changes only in the commit step, and after
\* the commit it reads all the rows the run wrote.
ReaderSeesNoIntermediateState ==
    [][ /\ pc' \in InRun => ReaderView' = preRun'
        /\ ReaderView' # ReaderView => pc = "commit" /\ pc' = "return"
        /\ pc' = "return" => ReaderView' = Db'
      ]_vars

\* the run has cleared and rewritten rows the reader does not see yet
ReaderSeesNoIntermediateStateWitness ==
    /\ pc = "loop"
    /\ images # {} /\ images # committed.images
    /\ committed.images # {}
    /\ ReaderView = preRun

\* ---------------------------------------------------------------- C5
\* Where ThumbWorker.run is once it has emitted: in the finally clause of the
\* canceled pooled loop, or at its end
ThumbSignalled == {"shutdown", "done"}

\* C5: every run of IndexWorker.run and of ThumbWorker.run emits exactly one
\* terminal signal: none before the run ends, one when it has ended; it is
\* failed exactly when an exception reached run, canceled exactly when no
\* exception did and the cancel flag was set at the check, finished otherwise.
ExactlyOneTerminalSignal ==
    [][ /\ pc' # "done" => signals' = <<>>
        /\ pc' = "done" => Len(signals') = 1
        /\ (pc # "done" /\ pc' = "done") =>
              /\ signals'[1].sig = "failed" <=> pc = "except"
              /\ signals'[1].sig = "canceled" <=> (pc = "return" /\ cancel_event)
              /\ signals'[1].sig = "finished" <=> (pc = "return" /\ ~cancel_event)
        /\ thumb_pc' \notin ThumbSignalled => thumb_signals' = <<>>
        /\ thumb_pc' \in ThumbSignalled => Len(thumb_signals') = 1
        /\ (thumb_pc \notin ThumbSignalled /\ thumb_pc' \in ThumbSignalled) =>
              /\ thumb_signals'[1].sig = "failed" <=> thumb_pc = "except"
              /\ thumb_signals'[1].sig = "canceled" <=>
                    (thumb_pc \in {"loop", "after_loop"} /\ thumb_cancel_event)
              /\ thumb_signals'[1].sig = "finished" <=>
                    (thumb_pc = "after_loop" /\ ~thumb_cancel_event)
      ]_vars

\* a pooled ThumbWorker run stopped by the cancel flag inside its loop, after
\* it had counted a thumbnail and before it consumed every unit
ExactlyOneTerminalSignalWitness ==
    /\ thumb_pc = "done"
    /\ Pooled
    /\ thumb_signals = <<ThumbSignal("canceled", 1, Len(thumb_paths))>>
    /\ thumb_pending # {}

\* ---------------------------------------------------------------- C6
\* C6: a failing store operation (clear_all, upsert_image, delete_missing,
\* commit) ends the run with the failed signal and with nothing of the run
\* committed: the committed snapshot is the one from before the run.
StoreFailureCommitsNothing ==
    [][ /\ pc' = "except" => committed' = preRun'
        /\ (pc = "except" /\ pc' # "except") =>
              /\ signals' = <<Signal("failed", 0)>>
              /\ committed' = preRun /\ pc' = "done"
        /\ (pc' = "done" /\ Len(signals') > 0 /\ signals'[1].sig = "failed") =>
              /\ committed' = preRun' /\ ReaderView' = preRun'
              /\ images' = preRun'.images /\ images_fts' = preRun'.images_fts
      ]_vars

\* an upsert failed after earlier units of the run had rewritten the store
StoreFailureCommitsNothingWitness ==
    /\ pc = "except"
    /\ preRun.images # {}
    /\ images # {} /\ images # preRun.images

\* ---------------------------------------------------------------- C7
\* The units the writer loop has consumed so far
Consumed == (1..Len(paths)) \ pending

\* C7: the count build_index returns is the number of upsert_image calls of
\* the run, which is the number of consumed units that produced a record; a
\* skipped unit and an abandoned unit are not counted, and the count is 0
\* when cancellation is observed before the first unit.
CountIsUpsertCalls ==
    pc \in {"loop", "delete_missing", "commit", "return"} =>
        /\ count = upsertCalls
        /\ count = Cardinality({ i \in Consumed : disk[paths[i]] \in Vers })
        /\ (canceled /\ Consumed = {}) => count = 0

\* a run that returns after a skipped unit, an upserted unit and a cancel
CountIsUpsertCallsWitness ==
    /\ pc = "return" /\ canceled
    /\ pending # {}
    /\ count >= 1
    /\ \E i \in Consumed : disk[paths[i]] = Broken

\* ---------------------------------------------------------------- C9
\* C9: a rebuild preserves the surrogate id of every path that has a record
\* before and after it.
RebuildKeepsIds ==
    pc = "return" =>
        \A r \in preRun.images, s \in committed.images :
            r.path = s.path => r.id = s.id

\* --------------------------------------------------------------- C10
\* C10: a surrogate id is never reused: an id that the record of path P
\* carried in the snapshot committed before a run is not carried by the
\* record of another path afterwards.
IdNeverReused ==
    \A r \in preRun.images, s \in committed.images :
        r.id = s.id => r.path = s.path

\* --------------------------------------------------------------- C17
\* C17: once build_index has observed the cancel flag it mutates the store no
\* more in that run: no upsert_image, no delete_missing, no commit or other
\* write follows the observation.
NoMutationAfterCancelObserved ==
    [][ canceled => /\ UNCHANGED storeVars
                    /\ ~(pc = "delete_missing" /\ pc' = "commit") ]_vars

\* --------------------------------------------------------------- C19
\* The units whose file cannot be read
FailedUnits == { i \in 1..Len(paths) : disk[paths[i]] \notin Vers }

\* C19: a unit whose stat fails never aborts build_index: the writer loop gets
\* None for it, not an exception; consuming it leaves the store and the count
\* alone and the loop goes on; a run that is not canceled ends with a record
\* for every other enumerated file, none for the failed one, and a count that
\* leaves it out.
SkippedFileNeverAborts ==
    [][ /\ (paths' = paths /\ pending' # pending) =>
              \A i \in (pending \ pending') \cap FailedUnits :
                  /\ IndexPooled => /\ index_futures[i].state = "done"
                                    /\ ~index_futures[i].item.built
                  /\ pc' \in {"loop", "delete_missing"}
                  /\ UNCHANGED <<storeVars, count, existing_paths>>
        /\ (pc' = "return" /\ ~canceled') =>
              /\ \A i \in 1..Len(paths') :
                    disk'[paths'[i]] \in Vers =>
                        \E r \in committed'.images :
                            r.path = paths'[i] /\ r.mtime = disk'[paths'[i]]
              /\ \A r \in committed'.images : disk'[r.path] \in Vers
              /\ count' = Cardinality({ i \in 1..Len(paths') :
                                          disk'[paths'[i]] \in Vers })
      ]_vars

\* a pooled run that was not canceled has ended; one of its files could not be
\* read, another one was stored and counted
SkippedFileNeverAbortsWitness ==
    /\ pc = "return" /\ ~canceled
    /\ workers > 1
    /\ FailedUnits # {}
    /\ count >= 1
    /\ committed.images # {}

\* --------------------------------------------------------------- C11
\* The stored records without their surrogate id
Records(imgs) ==
    { [path |-> r.path, filename |-> r.filename, mtime |-> r.mtime,
       size |-> r.size, metadata |-> JsonLoads(r.metadata_json)] : r \in imgs }

\* C11: a run of build_index that was not canceled, following a run with the
\* same folders and worker count that was not canceled either, with no file
\* changed in between, returns the same count, stores the same records and
\* gives the same result for every query as the run before it.
RebuildIsIdempotent ==
    (/\ pc = "return" /\ ~canceled
     /\ prevRun.folders = folders /\ prevRun.workers = workers) =>
        /\ count = prevRun.count
        /\ Records(committed.images) = Records(preRun.images)
        /\ \A query \in Queries :
              search_images(committed, query, MaxPaths + 1, 0)
                = search_images(preRun, query, MaxPaths + 1, 0)

\* --------------------------------------------------------------- C16
\* A step of a pool thread: a future changes while the thread that called
\* build_index stays where it is
PoolThreadStep == pc' = pc /\ index_futures' # index_futures

\* A step of the thread that called build_index: it moves on, or consumes a
\* unit in its loop
CallerThreadStep == pc' # pc \/ pending' # pending

\* C16: with workers > 1 every mutation of the store (clear_all, upsert_image,
\* delete_missing, commit) is a step of the thread that called build_index;
\* a pool thread only turns a queued unit into the record build_item gives
\* for its path (or None) and touches neither the store nor the writer's
\* bookkeeping.
SingleWriter ==
    [][ /\ PoolThreadStep =>
              /\ UNCHANGED <<storeVars, pending, existing_paths, count,
                             upsertCalls>>
              /\ \A i \in DOMAIN index_futures :
                    index_futures'[i] # index_futures[i] =>
                        /\ index_futures[i].state = "queued"
                        /\ index_futures'[i]
                             = Done(build_item(index_futures[i].path))
        /\ (<<images, images_fts, committed>>' # <<images, images_fts, committed>>) =>
              /\ ~PoolThreadStep
              /\ CallerThreadStep
      ]_vars

\* a pooled run in its loop: the writer has stored a record, the pool has
\* finished a unit the writer has not consumed yet and another is still queued
SingleWriterWitness ==
    /\ pc = "loop" /\ workers > 1
    /\ images # {}
    /\ \E i, j \in DOMAIN index_futures :
         /\ i \in pending /\ index_futures[i].state = "done"
         /\ index_futures[j].state = "queued"

\* --------------------------------------------------------------- C18
\* A pool thread of build_index takes a unit that had not started
IndexUnitStarts ==
    \E i \in DOMAIN index_futures :
        /\ index_futures[i].state = "queued"
        /\ i \in DOMAIN index_futures'
        /\ index_futures'[i].state = "done"

\* A pool thread of ThumbWorker.run takes a unit that had not started
ThumbUnitStarts ==
    \E i \in DOMAIN futures :
        /\ futures[i] = "queued"
        /\ i \in DOMAIN futures'
        /\ futures'[i] \in ThumbRunning

\* C18: with a pool, once the consumer loop of build_index, or of
\* ThumbWorker.run, has observed the cancel flag, no pool thread starts a unit
\* that had not started.
NoUnitStartsAfterCancelObserved ==
    [][ /\ canceled => ~IndexUnitStarts
        /\ thumb_pc \in ThumbSignalled => ~ThumbUnitStarts ]_vars

\* --------------------------------------------------------------- C20
\* The snapshot entry of a stored record: its columns, with the metadata the
\* extractor gave for that version of the file
EntryOf(r) ==
    [path |-> r.path, filename |-> r.filename, mtime |-> r.mtime,
     size |-> r.size, metadata |-> Extract(r.path, r.mtime)]

\* C20: build_index writes the snapshot exactly when a snapshot path is given
\* and the run was not canceled; it writes it after the commit, and the file
\* holds one entry for each record of the store at that point and nothing
\* else.
SnapshotIffNamedAndNotCanceled ==
    [][ /\ (snapshot' # snapshot /\ snapshot'.written) =>
              /\ json_path # NoPath /\ ~canceled
              /\ pc = "export"
              /\ committed = Db
              /\ Len(snapshot'.rows) = Cardinality(committed.images)
              /\ \A r \in committed.images :
                    Cardinality({ k \in 1..Len(snapshot'.rows) :
                                    snapshot'.rows[k].path = r.path }) = 1
              /\ { snapshot'.rows[k] : k \in 1..Len(snapshot'.rows) }
                    = { EntryOf(r) : r \in committed.images }
        /\ (pc # "return" /\ pc' = "return") =>
              (snapshot'.written <=> (json_path' # NoPath /\ ~canceled'))
      ]_vars

\* a run over root and root/sub that was not canceled has written its
\* snapshot: three units counted, two stored paths, two entries
SnapshotIffNamedAndNotCanceledWitness ==
    /\ pc = "return" /\ ~canceled
    /\ json_path # NoPath
    /\ snapshot.written
    /\ count = 3
    /\ Len(snapshot.rows) = 2

\* --------------------------------------------------------------- C25
\* C25: after delete_missing(seen) neither table holds a row whose path is
\* outside seen, and every row whose path is in seen is there as it was, in
\* the primary table (id and fields) and in the search index.
DeleteMissingKeepsSeen ==
    [][ lastOp'.op = "delete_missing" =>
          /\ images' = { r \in images : r.path \in lastOp'.existing }
          /\ images_fts' = { f \in images_fts : f.path \in lastOp'.existing }
      ]_vars

\* delete_missing has left one row, of a path it was given, which is not the
\* first row the table ever had
DeleteMissingKeepsSeenWitness ==
    /\ lastOp.op = "delete_missing"
    /\ Cardinality(images) = 1
    /\ Cardinality(images_fts) = 1
    /\ \A r \in images : r.id > 1 /\ r.path \in lastOp.existing

\* --------------------------------------------------------------- C26
\* The paths that have a row in the primary table
StoredPaths(imgs) == { r.path : r \in imgs }

\* C26: the first step of build_index empties the search index and leaves the
\* rows of the primary table in place; during a run a path loses its primary
\* row only in the deletion reconciliation at the end of a run that was not
\* canceled.
ClearAllKeepsPrimaryRows ==
    [][ /\ (pc = "clear_all" /\ pc' \in {"loop", "delete_missing"}) =>
              images_fts' = {} /\ images' = images
        /\ (pc \in InRun /\ StoredPaths(images) \ StoredPaths(images') # {}) =>
              pc = "delete_missing" /\ ~canceled
      ]_vars

\* What build_thumb may not call on a cache hit
SourceOps == {"getsize", "read", "scaled", "save"}

\* C21: thumb_cache_path depends on the path and the file's (mtime, size)
\* only - across any step that leaves them alone, or leaves the file
\* unstat-able, the key of a path stays what it was - and when the cache file
\* of the key exists build_thumb returns True without reading the source's
\* size, decoding it or writing the cache file, in the sequential loop and in
\* the pool.
CacheHitTouchesNothing ==
    [][ /\ \A p \in Paths :
              \/ disk'[p] = disk[p]
              \/ disk[p] \notin Vers /\ disk'[p] \notin Vers
              => thumb_cache_path(p)' = thumb_cache_path(p)
        /\ \A p \in Paths, decoded \in BOOLEAN :
              CacheExists(cache_files, thumb_cache_path(p)) =>
                  /\ build_thumb(p, decoded).result
                  /\ ~build_thumb(p, decoded).raised
                  /\ build_thumb(p, decoded).files = cache_files
                  /\ Range(build_thumb(p, decoded).ops) \cap SourceOps = {}
        /\ \A i \in DOMAIN futures :
              /\ i \in DOMAIN futures'
              /\ futures[i] = "queued"
              /\ futures'[i] \in ThumbRunning
              /\ CacheExists(cache_files, thumb_cache_path(thumb_paths[i]))
              => futures'[i] = "hit" /\ cache_files' = cache_files
        /\ \A i \in DOMAIN futures :
              /\ i \in DOMAIN futures'
              /\ futures[i] = "hit"
              /\ futures'[i] # "hit"
              => futures'[i] = "true" /\ cache_files' = cache_files
        /\ \A i \in thumb_pending \ thumb_pending' :
              /\ thumb_pc = "loop"
              /\ ~Pooled
              /\ CacheExists(cache_files, thumb_cache_path(thumb_paths[i]))
              => cached' = cached + 1 /\ cache_files' = cache_files
      ]_vars

\* A pool worker has found the cache file of its unit while the key of
\* another path of the batch is the path alone.
CacheHitTouchesNothingWitness ==
    /\ \E i \in DOMAIN futures : futures[i] = "hit"
    /\ \E i \in DOMAIN thumb_paths : disk[thumb_paths[i]] \notin Vers

\* The source's size cannot be read or is larger than the limit
TooLargeOrUnreadable(path, limit) ==
    disk[path] \notin Vers \/ disk[path] > limit

\* What decodes the source or writes the cache file
DecodeOps == {"read", "scaled", "save"}

\* C22: for a source without a cache file whose size is larger than the
\* maximum or cannot be read, build_thumb and SearchModel.data return without
\* decoding the source and without writing a cache file, and the path is not
\* cached; no step of the worker or of the view creates a cache file for such
\* a source.
OversizeSourceIsSkipped ==
    [][ /\ \A p \in Paths, decoded \in BOOLEAN :
              /\ ~CacheExists(cache_files, thumb_cache_path(p))
              /\ TooLargeOrUnreadable(p, max_thumb_bytes)
              => /\ ~build_thumb(p, decoded).result
                 /\ ~build_thumb(p, decoded).raised
                 /\ build_thumb(p, decoded).files = cache_files
                 /\ Range(build_thumb(p, decoded).ops) \cap DecodeOps = {}
        /\ \A p \in Paths, decoded \in BOOLEAN :
              /\ ~CacheExists(cache_files, thumb_cache_path(p))
              /\ TooLargeOrUnreadable(p, ModelMaxThumbBytes)
              => /\ ~data(p, decoded).result
                 /\ data(p, decoded).files = cache_files
                 /\ Range(data(p, decoded).ops) \cap DecodeOps = {}
        /\ \A i \in DOMAIN futures :
              /\ i \in DOMAIN futures'
              /\ futures[i] = "queued"
              /\ futures'[i] \in ThumbRunning
              /\ ~CacheExists(cache_files, thumb_cache_path(thumb_paths[i]))
              /\ TooLargeOrUnreadable(thumb_paths[i], max_thumb_bytes)
              => futures'[i] = "skip" /\ cache_files' = cache_files
        /\ \A i \in DOMAIN futures :
              /\ i \in DOMAIN futures'
              /\ futures[i] = "skip"
              /\ futures'[i] # "skip"
              => futures'[i] = "false" /\ cache_files' = cache_files
        /\ \A i \in thumb_pending \ thumb_pending' :
              /\ thumb_pc = "loop"
              /\ ~Pooled
              /\ ~CacheExists(cache_files, thumb_cache_path(thumb_paths[i]))
              /\ TooLargeOrUnreadable(thumb_paths[i], max_thumb_bytes)
              => cached' = cached /\ cache_files' = cache_files
        /\ \A f \in cache_files' :
              f.key \notin CacheKeys(cache_files) =>
                  ~TooLargeOrUnreadable(f.key[1],
                        IF futures' # futures \/ thumb_pending' # thumb_pending
                        THEN max_thumb_bytes ELSE ModelMaxThumbBytes)
      ]_vars

\* A pool worker has skipped a source that is larger than the worker's
\* maximum, and the view has a row whose source cannot be read and a row whose
\* source is larger than the model's maximum, none of them with a cache file.
OversizeSourceIsSkippedWitness ==
    /\ \E i \in DOMAIN futures :
         /\ futures[i] = "false"
         /\ disk[thumb_paths[i]] \in Vers
         /\ disk[thumb_paths[i]] > max_thumb_bytes
         /\ ~CacheExists(cache_files, thumb_cache_path(thumb_paths[i]))
    /\ \E p \in Paths :
         /\ disk[p] \notin Vers
         /\ ~CacheExists(cache_files, thumb_cache_path(p))
    /\ \E p \in Paths :
         /\ disk[p] \in Vers
         /\ disk[p] > ModelMaxThumbBytes
         /\ ~CacheExists(cache_files, thumb_cache_path(p))

\* C23: producing the thumbnail of one path never raises: a failed stat, a
\* failed size read, a null image and a failed save all make build_thumb
\* return False with the cache directory unchanged.  The unit is consumed
\* without being counted, the loop goes on with the remaining paths, and the
\* worker reaches its except clause from mkdir only: a batch that has entered
\* its loop ends with finished or canceled.
FailedThumbNeverAborts ==
    [][ /\ \A p \in Paths, decoded \in BOOLEAN :
              /\ ~build_thumb(p, decoded).raised
              /\ ~build_thumb(p, decoded).result
                    => build_thumb(p, decoded).files = cache_files
              /\ disk[p] \notin Vers \/ ~decoded
                    => \/ ~build_thumb(p, decoded).result
                       \/ CacheExists(cache_files, thumb_cache_path(p))
        /\ \A i \in DOMAIN futures' : futures'[i] # "raised"
        /\ thumb_pc = "loop" /\ thumb_pending' # thumb_pending =>
              /\ \E i \in thumb_pending : thumb_pending' = thumb_pending \ {i}
              /\ cached' \in {cached, cached + 1}
              /\ thumb_pc' = IF thumb_pending' = {} THEN "after_loop" ELSE "loop"
        /\ thumb_pc' = "except" /\ thumb_pc # "except" => thumb_pc = "mkdir"
        /\ thumb_pc = "loop" /\ thumb_pc' # "loop" =>
              \/ thumb_pc' = "after_loop" /\ thumb_pending' = {}
              \/ thumb_cancel_event /\ thumb_pc' \in ThumbSignalled
        /\ \A k \in DOMAIN thumb_signals' \ DOMAIN thumb_signals :
              thumb_signals'[k].sig = "failed" =>
                  thumb_pc = "except" /\ thumb_pending = {} /\ futures = <<>>
      ]_vars

\* A batch whose first path could not be stat'ed has gone on, has cached a
\* later path and has ended with finished.
FailedThumbNeverAbortsWitness ==
    /\ thumb_pc = "done"
    /\ Len(thumb_paths) >= 2
    /\ disk[thumb_paths[1]] \notin Vers
    /\ ~CacheExists(cache_files, thumb_cache_path(thumb_paths[1]))
    /\ cached >= 1
    /\ Len(thumb_signals) = 1
    /\ thumb_signals[1] = ThumbSignal("finished", cached, Len(thumb_paths))

\* C29: no step of a ThumbWorker run removes a cache file: every file of the
\* cache directory is still there after the step, whatever has happened to
\* its source; a source whose mtime or size has changed gets a second file
\* under its new key.
CacheFilesAreNeverRemoved ==
    [][ /\ CacheKeys(cache_files) \subseteq CacheKeys(cache_files')
        /\ \A f \in cache_files' :
              f.key \notin CacheKeys(cache_files) =>
                  f.key = <<f.key[1], disk[f.key[1]]>>
      ]_vars

\* A worker has ended with the cache files of both versions of one source in
\* the directory, next to the cache file of a source that has been deleted.
CacheFilesAreNeverRemovedWitness ==
    /\ thumb_pc = "done"
    /\ cached >= 1
    /\ \E p \in Paths :
         /\ disk[p] = 2
         /\ {<<p, 1>>, <<p, 2>>} \subseteq CacheKeys(cache_files)
    /\ \E f \in cache_files : disk[f.key[1]] = None

\* C24: the writers of one cache file write the same content: a step that
\* writes a file that is already there leaves its content as it was, and the
\* content of a file depends on its key only.
WritersAgreeOnContent ==
    [][ \A f \in cache_files, g \in cache_files' :
            f.key = g.key => f.content = g.content ]_vars

\* The on_progress calls number the units 1, 2, 3, ... up to total
CompletedCountsUp ==
    \A k \in DOMAIN progress_calls :
        /\ progress_calls[k].completed = k
        /\ progress_calls[k].total = Len(paths)
        /\ k <= Len(paths)

\* A pass of the writer loop that takes a unit
UnitTaken ==
    pc = "loop" /\ pending' # pending /\ pc' \in {"loop", "delete_missing"}

\* C27: without a pool the units are taken in the order of the enumeration:
\* the k-th on_progress call and the k-th unit built and offered to
\* upsert_image are for the k-th path, one unit is built, upserted or skipped
\* per pass and the next one is not touched before; with a pool the calls
\* and the upserts are for the units in the order they are taken from
\* as_completed, and only units whose future is done are taken.
SequentialFollowsEnumeration ==
    [][ /\ UnitTaken /\ ~IndexPooled =>
              LET k == Len(progress_calls')
              IN  /\ k = Len(progress_calls) + 1
                  /\ progress_calls'[k] =
                        [completed |-> k, total |-> Len(paths), path |-> paths[k]]
                  /\ pending = k..Len(paths)
                  /\ pending' = (k + 1)..Len(paths)
                  /\ IF build_item(paths[k]).built
                     THEN /\ existing_paths' = Append(existing_paths, paths[k])
                          /\ upsertCalls' = upsertCalls + 1
                     ELSE UNCHANGED <<storeVars, existing_paths, upsertCalls>>
        /\ UnitTaken /\ IndexPooled =>
              \E i \in pending :
                  /\ index_futures[i].state = "done"
                  /\ pending' = pending \ {i}
                  /\ progress_calls' = Append(progress_calls,
                        [completed |-> Len(progress_calls) + 1,
                         total |-> Len(paths), path |-> paths[i]])
                  /\ IF index_futures[i].item.built
                     THEN /\ existing_paths' = Append(existing_paths, paths[i])
                          /\ upsertCalls' = upsertCalls + 1
                     ELSE UNCHANGED <<storeVars, existing_paths, upsertCalls>>
        /\ ~IndexPooled /\ pc \in {"loop", "delete_missing"} =>
              /\ \A k \in DOMAIN progress_calls : progress_calls[k].path = paths[k]
              /\ pending = (Len(progress_calls) + 1)..Len(paths)
      ]_vars

\* A sequential run over several paths has skipped one of them and has called
\* on_progress for each of them in the order of the enumeration.
SequentialFollowsEnumerationWitness ==
    /\ pc = "delete_missing"
    /\ ~IndexPooled
    /\ ~canceled
    /\ Len(paths) >= 2
    /\ Len(progress_calls) = Len(paths)
    /\ Len(existing_paths) < Len(paths)
    /\ Len(existing_paths) >= 1

\* C28: in every pass of the writer loop on_progress(completed, total, path)
\* is called before the cancel flag is looked at, so the pass that observes
\* the flag has reported its unit; the completed values of a run are 1, 2,
\* 3, ... up to total at most, a skipped file is reported too, and a run that
\* was not canceled has made exactly total calls.
ProgressBeforeCancelCheck ==
    [][ /\ pc = "loop" /\ ~canceled /\ canceled' =>
              Len(progress_calls') = Len(progress_calls) + 1
        /\ CompletedCountsUp'
        /\ UnitTaken => Len(progress_calls') = Len(progress_calls) + 1
        /\ pc' = "delete_missing" /\ ~canceled' =>
              Len(progress_calls') = Len(paths')
      ]_vars

\* The calls as build_index makes them: the pass that observes the flag makes
\* none
ProgressCountsUnits ==
    [][ /\ CompletedCountsUp'
        /\ UnitTaken => Len(progress_calls') = Len(progress_calls) + 1
        /\ pc' = "delete_missing" /\ ~canceled' =>
              Len(progress_calls') = Len(paths')
        /\ pc = "loop" /\ ~canceled /\ canceled' =>
              progress_calls' = progress_calls
      ]_vars

\* ------------------------------------------------ ImageFinder.iter_images

IMAGE_EXTENSIONS ==
    {".jpg", ".jpeg", ".tif", ".tiff", ".png", ".bmp", ".gif", ".webp"}

\* The folders that can exist; "missing" never does
FinderDirs == {"root", "root/sub", "other"}

\* The parent of a folder ("" for a top folder)
Parent(dir) == IF dir = "root/sub" THEN "root" ELSE ""

\* The files that can exist: the folder they are in, the stem of their name
\* and Path.suffix of it ("" for a name without a dot)
FinderFiles ==
    << [dir |-> "root", stem |-> "a", suffix |-> ".jpg"],
       [dir |-> "root", stem |-> "b", suffix |-> ".JPG"],
       [dir |-> "root", stem |-> "notes", suffix |-> ".txt"],
       [dir |-> "root/sub", stem |-> "c", suffix |-> ".Png"],
       [dir |-> "root/sub", stem |-> "d", suffix |-> ""],
       [dir |-> "other", stem |-> "e", suffix |-> ".webp"] >>

\* A file system: the folders that exist and the files (positions of
\* FinderFiles) in them
IsTree(tree) ==
    /\ tree.dirs \subseteq FinderDirs
    /\ tree.files \subseteq DOMAIN FinderFiles
    /\ \A d \in tree.dirs : Parent(d) # "" => Parent(d) \in tree.dirs
    /\ \A f \in tree.files : FinderFiles[f].dir \in tree.dirs

\* The lists of root folders a call is given
FinderFolderLists ==
    { <<"root">>, <<"missing">>, <<"missing", "root">>,
      <<"root/sub", "other">>, <<"other", "missing", "root">> }

\* str.lower() on the suffixes that occur
Lower(suffix) ==
    CASE suffix = ".JPG" -> ".jpg"
      [] suffix = ".Png" -> ".png"
      [] OTHER -> suffix

\* is_image_file comparing the suffix as it is written
is_image_file_case_sensitive(file) == file.suffix \in IMAGE_EXTENSIONS

\* is_image_file(path): path.suffix.lower() in IMAGE_EXTENSIONS
is_image_file(file) == Lower(file.suffix) \in IMAGE_EXTENSIONS

\* The files os.walk lists in one folder that pass is_image_file
ImagesIn(tree, dir) ==
    AscSeq({ f \in tree.files :
               FinderFiles[f].dir = dir /\ is_image_file(FinderFiles[f]) })

\* os.walk(folder), top-down: the folder itself, then its sub-folders
OsWalk(tree, folder) ==
    LET subs == { d \in tree.dirs : Parent(d) = folder }
    IN  ImagesIn(tree, folder)
          \o (IF subs = {} THEN <<>>
              ELSE ImagesIn(tree, CHOOSE d \in subs : TRUE))

\* ImageFinder.iter_images(folders) on a file system: a folder that does not
\* exist is passed over, the others are walked in the order given
RECURSIVE FinderIterImages(_, _)
FinderIterImages(tree, folder_list) ==
    IF folder_list = <<>> THEN <<>>
    ELSE (IF Head(folder_list) \notin tree.dirs THEN <<>>
          ELSE OsWalk(tree, Head(folder_list)))
           \o FinderIterImages(tree, Tail(folder_list))

\* A folder or a file is created or removed between two calls.
FinderFsChange ==
    /\ \E tree \in [dirs : SUBSET FinderDirs, files : SUBSET DOMAIN FinderFiles] :
         /\ IsTree(tree)
         /\ Cardinality((tree.dirs \ fs.dirs) \cup (fs.dirs \ tree.dirs))
              + Cardinality((tree.files \ fs.files) \cup (fs.files \ tree.files))
              = 1
         /\ fs' = tree
    /\ UNCHANGED <<storeVars, disk, lastOp, runVars, thumbVars, found,
                   extractVars, windowVars>>

\* list(finder.iter_images(folders))
CallIterImages ==
    /\ \E folder_list \in FinderFolderLists :
         found' = [folders |-> folder_list,
                   result |-> FinderIterImages(fs, folder_list)]
    /\ UNCHANGED <<storeVars, disk, lastOp, runVars, thumbVars, fs, extractVars,
                   windowVars>>

NextFinder == FinderFsChange \/ CallIterImages

SpecFinder == Init /\ [][NextFinder]_vars

\* A file is below a folder: in it or in a sub-folder of it
Below(file, folder) ==
    file.dir = folder \/ Parent(file.dir) = folder

\* C30: a call of iter_images passes over the roots that do not exist and
\* goes on with the next one; what it yields is, for the file system as it is
\* at the call and whatever an earlier call gave, every file below an
\* existing root whose suffix in lower case is in IMAGE_EXTENSIONS, and no
\* other file.
FinderYieldsImagesOfExistingRoots ==
    [][ found' # found =>
          /\ found'.folders \in FinderFolderLists
          /\ Range(found'.result) =
                { f \in fs.files :
                    /\ Lower(FinderFiles[f].suffix) \in IMAGE_EXTENSIONS
                    /\ \E k \in DOMAIN found'.folders :
                          /\ found'.folders[k] \in fs.dirs
                          /\ Below(FinderFiles[f], found'.folders[k]) }
          /\ found'.result = FinderIterImages(fs', found'.folders)
      ]_vars

\* A call whose first root does not exist has yielded the files of the later
\* root, one with an upper-case suffix and one in a sub-folder among them,
\* and not the text file next to them.
FinderYieldsImagesOfExistingRootsWitness ==
    /\ found.folders = <<"missing", "root">>
    /\ {2, 4} \subseteq Range(found.result)
    /\ {3, 5} \subseteq fs.files
    /\ 3 \notin Range(found.result)

\* ------------------------------------------ ExifMetadataExtractor.extract

\* JSON values as json.loads returns them
JScalar(text) == [type |-> "scalar", text |-> text, entries |-> <<>>]
JObject(entries) == [type |-> "object", text |-> "", entries |-> entries]
JList(items) == [type |-> "list", text |-> "", entries |-> items]
Entry(key, value) == [key |-> key, value |-> value]

\* What exiftool -json -g1 prints for a photo: one object with the file name
\* and one object per group
ExiftoolObject ==
    JObject(<< Entry("SourceFile", JScalar("a.jpg")),
               Entry("IFD0", JObject(<< Entry("Model", JScalar("X100")),
                                        Entry("Orientation", JScalar("6")) >>)) >>)

\* The ways subprocess.run and json.loads can end: run raises (exiftool is
\* not installed), stdout is empty, stdout is not JSON, stdout is JSON
ToolRuns ==
    { [kind |-> "raises", value |-> JList(<<>>)],
      [kind |-> "empty", value |-> JList(<<>>)],
      [kind |-> "garbage", value |-> JList(<<>>)] }
    \cup { [kind |-> "json", value |-> j] :
             j \in { JList(<<>>), ExiftoolObject, JList(<<JScalar("1")>>),
                     JList(<<ExiftoolObject>>) } }

\* The ways Image.open can end: it raises, or the image has this info
PilOpens ==
    { [kind |-> "raises", info |-> <<>>],
      [kind |-> "info", info |-> <<>>],
      [kind |-> "info", info |-> << Entry("dpi", JScalar("72")) >>] }

ExtractSuffixes == {".jpg", ".JPG", ".png", ".Png"}

\* for sub_key, sub_value in value.items():
\*     metadata[f"{key}:{sub_key}"] = str(sub_value)
RECURSIVE GroupTags(_, _)
GroupTags(key, entries) ==
    IF entries = <<>> THEN <<>>
    ELSE << <<key \o ":" \o Head(entries).key, Head(entries).value.text>> >>
           \o GroupTags(key, Tail(entries))

\* for key, value in items[0].items(): a group is flattened, another value
\* is kept under its key
RECURSIVE ObjectTags(_)
ObjectTags(entries) ==
    IF entries = <<>> THEN <<>>
    ELSE (IF Head(entries).value.type = "object"
          THEN GroupTags(Head(entries).key, Head(entries).value.entries)
          ELSE << <<Head(entries).key, Head(entries).value.text>> >>)
           \o ObjectTags(Tail(entries))

\* The first try block: what it adds to metadata and whether an exception
\* was raised in it (by subprocess.run, by json.loads, or by items[0].items()
\* when the first item is not an object)
ToolBlock(tool) ==
    IF tool.kind = "raises" THEN [raised |-> TRUE, tags |-> <<>>]
    ELSE IF tool.kind = "empty" THEN [raised |-> FALSE, tags |-> <<>>]
    ELSE IF tool.kind = "garbage" THEN [raised |-> TRUE, tags |-> <<>>]
    ELSE IF tool.value.type # "list" \/ tool.value.entries = <<>>
    THEN [raised |-> FALSE, tags |-> <<>>]
    ELSE IF tool.value.entries[1].type # "object"
    THEN [raised |-> TRUE, tags |-> <<>>]
    ELSE [raised |-> FALSE, tags |-> ObjectTags(tool.value.entries[1].entries)]

\* metadata[f"PIL:{key}"] = str(value) for the entries of im.info
RECURSIVE PilTags(_)
PilTags(info) ==
    IF info = <<>> THEN <<>>
    ELSE << <<"PIL:" \o Head(info).key, Head(info).value.text>> >>
           \o PilTags(Tail(info))

\* The second block: entered for .png, .gif, .bmp and .webp only
PilBlock(suffix, pil) ==
    IF Lower(suffix) \notin {".png", ".gif", ".bmp", ".webp"}
    THEN [raised |-> FALSE, tags |-> <<>>]
    ELSE IF pil.kind = "raises" THEN [raised |-> TRUE, tags |-> <<>>]
    ELSE [raised |-> FALSE, tags |-> PilTags(pil.info)]

\* extract without its except clauses
extract_unguarded(tool, suffix, pil) ==
    [raised |-> ToolBlock(tool).raised \/ PilBlock(suffix, pil).raised,
     metadata |-> ToolBlock(tool).tags \o PilBlock(suffix, pil).tags]

\* ExifMetadataExtractor.extract(path): each block is closed by
\* `except Exception: pass`, and metadata is returned as it then is
extract(tool, suffix, pil) ==
    [raised |-> FALSE,
     metadata |-> ToolBlock(tool).tags \o PilBlock(suffix, pil).tags]

\* build_item calls path.stat() and extractor.extract(path) for one file.
ExtractCall ==
    /\ \E path \in Paths, v \in Vers \cup {None}, tool \in ToolRuns,
          suffix \in ExtractSuffixes, pil \in PilOpens :
         LET extraction == extract(tool, suffix, pil)
         IN  extracted' = [called |-> TRUE, path |-> path, stat |-> v,
                           tool |-> tool, suffix |-> suffix, pil |-> pil,
                           extraction |-> extraction,
                           item |-> build_item_from(path, v, extraction)]
    /\ UNCHANGED <<storeVars, disk, lastOp, runVars, thumbVars, finderVars,
                   windowVars>>

NextExtract == ExtractCall

SpecExtract == Init /\ [][NextExtract]_vars

\* C31: extract returns a mapping whatever the tool, the parsing and the
\* container inspector do: nothing is raised, the tags collected before a
\* failure are in the mapping, a failed block adds none, and a file whose
\* stat succeeded is built by build_item with that mapping.
ExtractIsTotal ==
    extracted.called =>
        /\ ~extracted.extraction.raised
        /\ \/ extracted.item = NoItem /\ extracted.stat \notin Vers
           \/ /\ extracted.stat \in Vers
              /\ extracted.item.built
              /\ extracted.item.metadata = extracted.extraction.metadata
        /\ extracted.tool.kind \in {"raises", "empty", "garbage"} =>
              \A k \in DOMAIN extracted.extraction.metadata :
                  extracted.extraction.metadata[k][1] \in {"PIL:dpi"}
        /\ /\ extracted.tool.kind = "json"
           /\ extracted.tool.value = JList(<<ExiftoolObject>>)
           => /\ Len(extracted.extraction.metadata) >= 3
              /\ extracted.extraction.metadata[1] = <<"SourceFile", "a.jpg">>
              /\ extracted.extraction.metadata[2] = <<"IFD0:Model", "X100">>
              /\ extracted.extraction.metadata[3] = <<"IFD0:Orientation", "6">>
        /\ Len(extracted.extraction.metadata) > 3 =>
              /\ extracted.pil.kind = "info"
              /\ Lower(extracted.suffix) = ".png"

\* The tool could not be run and the container inspector raised, and the
\* file, whose stat succeeded, was built with the empty mapping.
ExtractIsTotalWitness ==
    /\ extracted.called
    /\ extracted.tool.kind = "raises"
    /\ Lower(extracted.suffix) = ".png"
    /\ extracted.pil.kind = "raises"
    /\ extracted.stat \in Vers
    /\ extracted.item.built
    /\ extracted.item.metadata = <<>>

\* C32: the delete_missing call that ends the writer's work in build_index
\* removes nothing: from clear_all on, every path of the primary table is one
\* this run has upserted, so the call leaves both tables as they are, in a
\* canceled run too.
FinalDeleteMissingRemovesNothing ==
    [][ /\ pc' \in {"loop", "shutdown", "delete_missing"} =>
              StoredPaths(images') \subseteq Range(existing_paths')
        /\ pc = "delete_missing" /\ pc' = "commit" =>
              /\ StoredPaths(images) \subseteq Range(existing_paths)
              /\ images' = images
              /\ images_fts' = images_fts
      ]_vars

\* A canceled run over a store that held more records has passed its
\* delete_missing call with the rows it upserted.
FinalDeleteMissingRemovesNothingWitness ==
    /\ pc = "commit"
    /\ canceled
    /\ images # {}
    /\ Cardinality(preRun.images) > Cardinality(images)
    /\ StoredPaths(images) = Range(existing_paths)

\* C33: the count a build_index that was not canceled returns is the number
\* of records in the store, count_images of the empty query, for every list
\* of root folders.
ReturnedCountIsStoreSize ==
    pc = "return" /\ ~canceled =>
        /\ count_images(committed, <<>>).ok
        /\ count = count_images(committed, <<>>).count

\* C35: the terminal signal of IndexWorker.run tells how build_index ended:
\* canceled exactly when it left its loop with units not consumed, finished
\* exactly when it consumed every unit; a cancel request made after the
\* last unit does not change the signal of the complete run.
SignalTellsHowRunEnded ==
    [][ pc = "return" /\ pc' = "done" =>
          /\ Len(signals') > 0
          /\ signals'[Len(signals')].sig = "canceled"
                 <=> canceled /\ pending # {}
          /\ signals'[Len(signals')].sig = "finished"
                 <=> ~canceled /\ pending = {}
      ]_vars

\* C34: once ThumbWorker has emitted canceled, no unit of its pool writes a
\* cache file any more; and the count the signal carries is the number of
\* consumed units whose build_thumb returned true.
CanceledWasEmitted ==
    \E k \in DOMAIN thumb_signals : thumb_signals[k].sig = "canceled"

PoolIsQuietAfterCanceled ==
    [][ /\ (CanceledWasEmitted /\ thumb_pc' # "idle" /\ futures' # futures
              => cache_files' = cache_files)
        /\ (thumb_pc = "loop" /\ thumb_pc' = "shutdown"
              => thumb_signals'[Len(thumb_signals')].cached =
                   Cardinality({ i \in DOMAIN futures \ thumb_pending :
                                   futures[i] = "true" }))
      ]_vars

\* ------------------------------------------------------ MainWindow
\* The IndexWorker threads of the window.  An IndexWorker is in build_index
\* (run up to repo.close()), has emitted its terminal signal, or has ended;
\* the last element is self.worker, older ones are dropped when they end.
MaxIndexThreads == 2

IndexWorkerObject(phase, cancel) == [phase |-> phase, cancel |-> cancel]

LiveIndexWorkers ==
    { i \in DOMAIN index_workers : index_workers[i].phase # "ended" }

RunningIndexWorkers ==
    { i \in DOMAIN index_workers : index_workers[i].phase = "build_index" }

\* An index_folders that leaves the button as it was
IndexButtonLeftEnabled == TRUE

\* index_folders: self.index_button.setEnabled(False)
IndexButtonWhileIndexing == FALSE

\* clear_thumbnail_cache: shutil.rmtree(cache_dir, ignore_errors=True), then
\* mkdir: the files are removed, except those whose removal failed
clear_thumbnail_cache(files) == SUBSET files

\* index_button.clicked -> index_folders with a folder chosen in the dialog
\* (a dismissed dialog returns at once and changes nothing)
index_folders ==
    /\ index_button
    /\ Cardinality(LiveIndexWorkers) < MaxIndexThreads
    /\ cache_files' \in clear_thumbnail_cache(cache_files)
    /\ index_button' = IndexButtonWhileIndexing
    /\ cancel_index_button' = "enabled"
    /\ index_workers' =
         Append(SelectSeq(index_workers, LAMBDA w : w.phase # "ended"),
                IndexWorkerObject("build_index", FALSE))
    /\ UNCHANGED <<storeVars, disk, finderVars, extractVars, lastOp, runVars,
                   index_events, thumb_pc, thumb_workers, thumb_paths,
                   max_thumb_bytes, thumb_cancel_event, thumb_pending, futures,
                   cached, thumb_signals>>

\* IndexWorker.run leaves build_index: canceled.emit when the cancel flag is
\* set, finished.emit otherwise, failed.emit on an exception
IndexWorkerEmits ==
    /\ \E i \in RunningIndexWorkers :
         \E sig \in {IF index_workers[i].cancel THEN "canceled" ELSE "finished",
                     "failed"} :
           /\ index_workers' = [index_workers EXCEPT ![i].phase = "emitted"]
           /\ index_events' = Append(index_events, sig)
    /\ UNCHANGED <<storeVars, disk, finderVars, extractVars, lastOp, runVars,
                   thumbVars, index_button, cancel_index_button>>

\* The thread of an IndexWorker that has emitted ends
IndexThreadEnds ==
    /\ \E i \in DOMAIN index_workers :
         /\ index_workers[i].phase = "emitted"
         /\ index_workers' =
              IF i = Len(index_workers)
              THEN [index_workers EXCEPT ![i].phase = "ended"]
              ELSE [j \in 1..(Len(index_workers) - 1) |->
                      IF j < i THEN index_workers[j] ELSE index_workers[j + 1]]
    /\ UNCHANGED <<storeVars, disk, finderVars, extractVars, lastOp, runVars,
                   thumbVars, index_button, index_events, cancel_index_button>>

\* on_index_done, on_index_failed, on_index_canceled: the window handles
\* the queued signal
on_index_signal ==
    /\ index_events # <<>>
    /\ index_events' = Tail(index_events)
    /\ index_button' = TRUE
    /\ cancel_index_button' = "hidden"
    /\ UNCHANGED <<storeVars, disk, finderVars, extractVars, lastOp, runVars,
                   thumbVars, index_workers>>

\* cancel_index_button.clicked -> cancel_index, with self.worker running
\* (otherwise the handler does nothing)
cancel_index ==
    /\ cancel_index_button = "enabled"
    /\ index_workers # <<>>
    /\ index_workers[Len(index_workers)].phase # "ended"
    /\ cancel_index_button' = "disabled"
    /\ index_workers' =
         [index_workers EXCEPT ![Len(index_workers)].cancel = TRUE]
    /\ UNCHANGED <<storeVars, disk, finderVars, extractVars, lastOp, runVars,
                   thumbVars, index_button, index_events>>

NextWindow ==
    \/ index_folders \/ IndexWorkerEmits \/ IndexThreadEnds
    \/ on_index_signal \/ cancel_index
    \/ ThumbStart \/ ThumbMkdir \/ ThumbMkdirFails \/ PoolStart \/ PoolFinish
    \/ ThumbUnitSequential \/ ThumbUnitPooled \/ ThumbObserveCancel
    \/ ThumbShutdown
    \/ ThumbAfterLoop \/ ThumbEmitFailed \/ ThumbGone \/ CancelThumbs
    \/ ModelData

SpecWindow == Init /\ [][NextWindow]_vars

\* C36: at most one IndexWorker of the window is in build_index at any
\* time, and none is while the index button is enabled.
OneIndexWorkerAtATime ==
    /\ Cardinality(RunningIndexWorkers) <= 1
    /\ index_button => RunningIndexWorkers = {}

\* A second rebuild runs while the thread of the first, which has emitted,
\* has not ended yet
OneIndexWorkerAtATimeWitness ==
    /\ Len(index_workers) = 2
    /\ index_workers[1].phase = "emitted"
    /\ index_workers[1].cancel
    /\ index_workers[2].phase = "build_index"
    /\ ~index_button

\* C38: while a ThumbWorker of the window runs, no step removes a file from
\* the cache directory, and when finished is emitted at least as many paths
\* of the batch have their cache file as the signal counts.
ThumbWorkerRuns ==
    thumb_pc \in {"mkdir", "loop", "shutdown", "after_loop", "except"}

CountedThumbsAreOnDisk ==
    [][ /\ (ThumbWorkerRuns => CacheKeys(cache_files) \subseteq
                                  CacheKeys(cache_files'))
        /\ (/\ thumb_pc = "after_loop"
            /\ thumb_pc' = "done"
            /\ thumb_signals'[Len(thumb_signals')].sig = "finished"
            => thumb_signals'[Len(thumb_signals')].cached <=
                 Cardinality({ i \in DOMAIN thumb_paths :
                     CacheExists(cache_files,
                                 thumb_cache_path(thumb_paths[i])) }))
      ]_vars

\* ------------------------------------------------------ termination
\* The steps of the two worker threads and of their pools.  A thread that
\* can take a step takes one, and a unit that runs ends; the store, the
\* user and the file system promise nothing.
IndexThreadStep ==
    \/ ClearAllStep \/ ConsumeUnit \/ ObserveCancel \/ IndexShutdown
    \/ DeleteMissingStep \/ CommitStep \/ EmitTerminal \/ EmitFailed

ThumbThreadStep ==
    \/ ThumbMkdir \/ ThumbUnitSequential \/ ThumbUnitPooled
    \/ ThumbObserveCancel \/ ThumbShutdown \/ ThumbAfterLoop
    \/ ThumbEmitFailed

ThumbPoolStep == PoolStart \/ PoolFinish

SpecTerminates ==
    /\ Init
    /\ [][NextWorkers]_vars
    /\ WF_vars(IndexThreadStep)
    /\ WF_vars(IndexPoolRun)
    /\ WF_vars(ThumbThreadStep)
    /\ WF_vars(ThumbPoolStep)

\* C37: every run of build_index returns or raises, and every run of
\* ThumbWorker.run ends with its terminal signal emitted, whatever the
\* paths, the worker count and the moment of the cancel request.
RunsTerminate ==
    /\ (pc \in InRun) ~> (pc \in {"return", "except"})
    /\ ThumbWorkerRuns ~> (thumb_pc = "done")

\* ThumbWorker.run has ended canceled while a unit of its pool still runs
RunsTerminateWitness ==
    /\ thumb_pc = "done"
    /\ thumb_signals # <<>>
    /\ thumb_signals[Len(thumb_signals)].sig = "canceled"
    /\ \E i \in DOMAIN futures : futures[i] \in ThumbRunning
====
